---- MODULE Spec2Model ----
(***************************************************************************)
(* Paper-trading ledger of the VPS agent (src/vps/vps_agent.py,           *)
(* write_outputs) and the fill-driven position store                      *)
(* (src/vps/connectors/polymarket_position_store.py).                     *)
(*                                                                         *)
(* One call of write_outputs is one tick.  A tick loads the paper         *)
(* portfolio file, runs the lead-lag / pm_trend loop over the market      *)
(* universe, the deadline-ladder auto-trade, the fair-model loop, the     *)
(* mark-to-market pass with auto-settlement, and writes the portfolio     *)
(* file back.  Each loop iteration is one step of the model.              *)
(*                                                                         *)
(* Units.  Money is counted in units of the tolerance 1e-9 that the       *)
(* insufficient-cash tests add to the cash (CashEps = 1 unit), prices in  *)
(* ticks of 1/One dollar per share, shares in whole units.  Arithmetic is *)
(* exact: avg_entry is a reduced fraction <<num, den>>.  Floating-point   *)
(* rounding is not modelled.                                               *)
(***************************************************************************)
EXTENDS Integers, Sequences, FiniteSets, TLC

(* ---------------------------------------------------------------------- *)
(* Bounds of the model                                                     *)
(* ---------------------------------------------------------------------- *)
MaxTicks == 7                  \* main() is followed for this many ticks
MaxRunTicks == 2               \* RUN_TICKS values tried
MaxMs == 6                     \* the millisecond clock of the cache stops here
MaxVer == 2                    \* versions of a market Gamma may answer with
MaxItems == 4                  \* items of the market index a ladder scan reads
MaxGateNow == 7                \* the clock of the ladder's trading pass stops here
MaxNow == 2          \* the clock saturates here: MaxNow stands for every later time
MaxCash == 3         \* no new tick is started once the stored cash exceeds this
MaxShares == 2       \* ... or once a stored position holds more shares than this
MaxRealized == 1     \* ... or once the stored realized P&L leaves -MaxRealized .. MaxRealized

(* ---------------------------------------------------------------------- *)
(* Configuration values (environment variables read by load_config),      *)
(* in model units                                                          *)
(* ---------------------------------------------------------------------- *)
One == 3                       \* price ticks per dollar: a resolved winning outcome pays One
StartBalance == 3              \* PAPER_START_BALANCE_USD
OrderSize == 2                 \* PM_ORDER_SIZE_SHARES
MaxSleepS == 300               \* the ceiling of the backoff sleep, seconds
BackoffMaxExp == 4             \* the largest exponent of the backoff
PoolWorkers == 2               \* PM_ORDERBOOK_WORKERS / GAMMA_WORKERS
GammaTtlMs == 2                \* GAMMA_CACHE_TTL_S, in clock units
MaxOrdersPerTick == 2          \* PM_MAX_ORDERS_PER_TICK
CashEps == 1                   \* the 1e-9 added to paper_cash in every insufficient-cash test
EdgeMinPct == 20               \* LEAD_LAG_EDGE_MIN_PCT
EdgeExitPct == 5               \* LEAD_LAG_EDGE_EXIT_PCT
TrendExitPct == 0              \* PM_TREND_EXIT_MOVE_MIN_PCT
TrendMoveMinPct == 10          \* PM_TREND_MOVE_MIN_PCT
MaxHoldSecs == 1               \* LEAD_LAG_MAX_HOLD_SECS
StopPct == 25                  \* LEAD_LAG_PM_STOP_PCT
AvoidAbove2 == 4               \* 2 x LEAD_LAG_AVOID_PRICE_ABOVE (compared with bid + ask)
AvoidBelow2 == 3               \* 2 x LEAD_LAG_AVOID_PRICE_BELOW (compared with bid + ask)
SlippageCap == 1               \* LEAD_LAG_SLIPPAGE_CAP
SpreadCostCapPct == 50         \* LEAD_LAG_SPREAD_COST_CAP_PCT
NetEdgeMinPct == 5             \* LEAD_LAG_NET_EDGE_MIN_PCT
FeesPct == 0                   \* (PM_EST_FEE_PCT + PM_EDGE_EXTRA_COST_PCT) * 100
MinTradeNotional == 0          \* LEAD_LAG_MIN_TRADE_NOTIONAL_USDC
ScaleOnOddsChangePct == 30     \* LEAD_LAG_SCALE_ON_ODDS_CHANGE_PCT
ScaleCooldownS == 1            \* LEAD_LAG_SCALE_COOLDOWN_S
ScaleMaxAdds == 1              \* LEAD_LAG_SCALE_MAX_ADDS
ScaleDiv == 2                  \* 1 / LEAD_LAG_SCALE_SIZE_MULT: a scale-in asks for size / ScaleDiv
ScaleMaxTotalShares == 3       \* LEAD_LAG_SCALE_MAX_TOTAL_SHARES
DeadlineIntervalS == 1         \* PM_DEADLINE_INTERVAL_S
DeadlineCooldownS == 2         \* PM_DEADLINE_TRADE_COOLDOWN_S
DeadlineMinProfit == 0         \* PM_DEADLINE_MIN_GUARANTEED_PROFIT
DeadlineMaxUsd == 4            \* PM_DEADLINE_MAX_USD
GraceS == 1                    \* PAPER_AUTO_EXIT_GRACE_H, in clock units
DeadlineMaxPairs == 2          \* PM_DEADLINE_MAX_PAIRS
MetaLookupMax == 1             \* PAPER_AUTO_EXIT_META_LOOKUP_MAX

Tokens == {1, 2}               \* CLOB token ids
MarketMap == <<1>>             \* tokens of the configured markets, in processing order
Prices == 1 .. (One - 1)       \* book prices lie strictly between 0 and 1 dollar
EdgeVals == {0, 20, 60}        \* edge_pct values the engines may report
VARIABLES
    cfg                  \* [strategy_mode, deadline, order_size, max_frac_cash]: fixed for the life of the process

\* STRATEGY_MODE x PM_DEADLINE_ENABLE / PM_DEADLINE_AUTO_TRADE x PM_ORDER_SIZE_SHARES
\* settings that are explored
\* (the ladder block is not reached in fair_model mode)
Configs ==
    { [strategy_mode |-> "lead_lag", deadline |-> "off", order_size |-> OrderSize, max_frac_cash |-> 1],
      [strategy_mode |-> "lead_lag", deadline |-> "trade", order_size |-> OrderSize, max_frac_cash |-> 1],
      [strategy_mode |-> "pm_trend", deadline |-> "off", order_size |-> OrderSize, max_frac_cash |-> 1],
      [strategy_mode |-> "fair_model", deadline |-> "off", order_size |-> OrderSize, max_frac_cash |-> 1],
      [strategy_mode |-> "fair_model", deadline |-> "off", order_size |-> 0, max_frac_cash |-> 1] }

Closable == {1}                \* markets that Gamma may report closed within the horizon

EndDate == <<1, 2>>            \* end_date of the market of each token

(* ---------------------------------------------------------------------- *)
(* Exact fractions, used for avg_entry                                     *)
(* ---------------------------------------------------------------------- *)
RECURSIVE Gcd(_, _)
Gcd(a, b) == IF b = 0 THEN a ELSE Gcd(b, a % b)

Frac(n, d) == IF n = 0 THEN <<0, 1>> ELSE <<n \div Gcd(n, d), d \div Gcd(n, d)>>

Min(a, b) == IF a <= b THEN a ELSE b
Max(a, b) == IF a >= b THEN a ELSE b

(* ---------------------------------------------------------------------- *)
(* Positions: the dict paper_positions, kept in insertion order.          *)
(* A position is [tok, shares, avg_entry, opened_at, adds, last_mid,      *)
(* last_scale_at]; last_mid is stored doubled (bid + ask); a missing      *)
(* last_mid is 0 and a missing last_scale_at is -1.                       *)
(* ---------------------------------------------------------------------- *)
Has(ps, tok) == \E k \in 1 .. Len(ps) : ps[k].tok = tok

Get(ps, tok) == ps[CHOOSE k \in 1 .. Len(ps) : ps[k].tok = tok]

Put(ps, tok, rec) ==
    IF Has(ps, tok)
    THEN [k \in 1 .. Len(ps) |-> IF ps[k].tok = tok THEN rec ELSE ps[k]]
    ELSE Append(ps, rec)

PopTok(ps, tok) == SelectSeq(ps, LAMBDA r : r.tok # tok)

SharesOf(ps, tok) == IF Has(ps, tok) THEN Get(ps, tok).shares ELSE 0

\* float(prev.get("avg_entry") or fill_price): a zero average counts as missing
AvgOr(avg, fill_price) == IF avg[1] = 0 THEN <<fill_price, 1>> ELSE avg

PrevAvg(ps, tok, fill_price) ==
    IF Has(ps, tok) THEN AvgOr(Get(ps, tok).avg_entry, fill_price) ELSE <<fill_price, 1>>

\* an average that forgets the shares already held
LastFillOnly(prev_shares, prev_avg, shares, fill_price) == <<fill_price, 1>>

\* new_avg = (prev_shares * prev_avg + shares * fill_price) / max(new_shares, 1e-9)
NewAvg(prev_shares, prev_avg, shares, fill_price) ==
    IF prev_shares + shares = 0
    THEN <<0, 1>>
    ELSE Frac(prev_shares * prev_avg[1] + shares * fill_price * prev_avg[2],
              prev_avg[2] * (prev_shares + shares))

\* (fill_price - avg_entry) * shares
Pnl(fill_price, avg, shares) == fill_price * shares - ((shares * avg[1]) \div avg[2])

\* a test that never finds the cash insufficient
NeverInsufficient(cash, notional) == FALSE

\* paper_cash + 1e-9 < notional
InsufficientCash(cash, notional) == cash + CashEps < notional

\* ev: which ledger operation ran last, on which token, how it ended,
\* whether the token's position was due for an exit when it ran, and for
\* an exit the best bid of the book it was filled against
NoEv == [kind |-> "none", tok |-> 0, status |-> "", exit_due |-> FALSE, px |-> 0]

Ev(kind, tok, status, size, price, prev_shares, exit_due) ==
    [kind |-> kind, tok |-> tok, status |-> status, exit_due |-> exit_due,
     px |-> IF kind = "exit" THEN price ELSE 0]

(* ---------------------------------------------------------------------- *)
(* Ledger operations.  L is [cash, realized, positions, signals, ev].      *)
(* ---------------------------------------------------------------------- *)

\* Enter: BUY at best ask (lead-lag / pm_trend loop)
PaperEnter(L, tok, fill_price, desired_shares, mid2, ts) ==
    LET notional == fill_price * desired_shares
        prev_shares == SharesOf(L.positions, tok)
        prev_avg == PrevAvg(L.positions, tok, fill_price)
        rejected == desired_shares <= 0 \/ InsufficientCash(L.cash, notional)
    IN  IF rejected
        THEN [L EXCEPT !.signals = @ + 1,
                       !.ev = Ev("enter", tok, "rejected", desired_shares, fill_price, prev_shares, FALSE)]
        ELSE [cash |-> L.cash - notional,
              realized |-> L.realized,
              positions |-> Put(L.positions, tok,
                                [tok |-> tok,
                                 shares |-> prev_shares + desired_shares,
                                 avg_entry |-> NewAvg(prev_shares, prev_avg, desired_shares, fill_price),
                                 opened_at |-> ts, adds |-> 0, last_mid |-> mid2,
                                 last_scale_at |-> -1]),
              signals |-> L.signals + 1,
              ev |-> Ev("enter", tok, "filled", desired_shares, fill_price, prev_shares, FALSE)]

\* an exit that books the sale at the average entry price
ExitAtEntry(L, tok, fill_price) ==
    LET shares_to_sell == SharesOf(L.positions, tok)
        avg_entry == PrevAvg(L.positions, tok, fill_price)
    IN  [cash |-> L.cash + (shares_to_sell * avg_entry[1]) \div avg_entry[2],
         realized |-> L.realized,
         positions |-> PopTok(L.positions, tok),
         signals |-> L.signals + 1,
         ev |-> Ev("exit", tok, "filled", shares_to_sell, fill_price, shares_to_sell, TRUE)]

\* Exit: SELL all at best bid
PaperExit(L, tok, fill_price) ==
    LET shares_to_sell == SharesOf(L.positions, tok)
        avg_entry == PrevAvg(L.positions, tok, fill_price)
    IN  [cash |-> L.cash + fill_price * shares_to_sell,
         realized |-> L.realized + Pnl(fill_price, avg_entry, shares_to_sell),
         positions |-> PopTok(L.positions, tok),
         signals |-> L.signals + 1,
         ev |-> Ev("exit", tok, "filled", shares_to_sell, fill_price, shares_to_sell, TRUE)]

\* Scale-in: BUY at best ask while already in position
PaperScale(L, tok, fill_price, scale_desired_shares, mid2, ts) ==
    LET notional == fill_price * scale_desired_shares
        has == Has(L.positions, tok)
        prev_shares == SharesOf(L.positions, tok)
        prev_avg == PrevAvg(L.positions, tok, fill_price)
        rejected == scale_desired_shares <= 0 \/ InsufficientCash(L.cash, notional)
    IN  IF rejected
        THEN [L EXCEPT !.signals = @ + 1,
                       !.ev = Ev("scale", tok, "rejected", scale_desired_shares, fill_price, prev_shares, FALSE)]
        ELSE [cash |-> L.cash - notional,
              realized |-> L.realized,
              positions |-> Put(L.positions, tok,
                                [tok |-> tok,
                                 shares |-> prev_shares + scale_desired_shares,
                                 avg_entry |-> NewAvg(prev_shares, prev_avg, scale_desired_shares, fill_price),
                                 opened_at |-> IF has THEN Get(L.positions, tok).opened_at ELSE ts,
                                 adds |-> (IF has THEN Get(L.positions, tok).adds ELSE 0) + 1,
                                 last_mid |-> mid2,
                                 last_scale_at |-> ts]),
              signals |-> L.signals + 1,
              ev |-> Ev("scale", tok, "filled", scale_desired_shares, fill_price, prev_shares, FALSE)]

\* No trade this tick: pos["last_mid"] = float(pm_mid)
KeepLastMid(L, tok, mid2, in_pos, exit_due) ==
    [L EXCEPT !.positions = IF in_pos
                            THEN Put(@, tok, [Get(@, tok) EXCEPT !.last_mid = mid2])
                            ELSE @,
              !.ev = Ev("hold", tok, "skipped", 0, 0, SharesOf(L.positions, tok), exit_due)]

Skipped(L, tok, exit_due) ==
    [L EXCEPT !.ev = Ev("skip", tok, "skipped", 0, 0, SharesOf(L.positions, tok), exit_due)]

(* ---------------------------------------------------------------------- *)
(* One iteration of the lead-lag / pm_trend loop for token tok.           *)
(* inp is what the tick observes for the token:                           *)
(*   avail      "missing_price" | "stale_or_warmup" | "ok"                *)
(*   bid, ask   top of book                                               *)
(*   edge       edge_pct (lead_lag) or the token's own return (pm_trend)  *)
(*   signal_ok  lead_lag: the spot move passes the adaptive threshold;    *)
(*              pm_trend: the auto-side gate lets the token through       *)
(*   max_shares what the ask band of the book can fill                    *)
(* ---------------------------------------------------------------------- *)
Mid2(inp) == inp.bid + inp.ask

\* spread_cost_pct > lead_lag_spread_cost_cap_pct, with spread_cost_pct = 100 * (ask - bid) / (ask + bid)
SpreadTooHigh(inp) == 100 * (inp.ask - inp.bid) > SpreadCostCapPct * Mid2(inp)

\* net_edge_pct < lead_lag_net_edge_min_pct, with net_edge_pct = edge_pct - spread_cost_pct - fees_pct
NetEdgeTooLow(inp) == (inp.edge - FeesPct - NetEdgeMinPct) * Mid2(inp) < 100 * (inp.ask - inp.bid)

\* float(ask) > avoid_price_above or float(ask) < avoid_price_below
AskInAvoidZone(inp) == 2 * inp.ask > AvoidAbove2 \/ 2 * inp.ask < AvoidBelow2

\* pm_mid > avoid_price_above or pm_mid < avoid_price_below
MidInAvoidZone(inp) == Mid2(inp) > AvoidAbove2 \/ Mid2(inp) < AvoidBelow2

InPos(ps, tok) == Has(ps, tok) /\ Get(ps, tok).shares > 0

\* hold_secs >= lead_lag_max_hold_secs
MaxHoldReached(pos, ts) == ts - pos.opened_at >= MaxHoldSecs

\* pm_move_pct <= -abs(lead_lag_pm_stop_pct), entry_price = avg_entry or pm_mid
StopHit(pos, inp) ==
    LET entry == IF pos.avg_entry[1] = 0 THEN <<Mid2(inp), 2>> ELSE pos.avg_entry
    IN  StopPct > 0 /\ 100 * Mid2(inp) * entry[2] <= (100 - StopPct) * 2 * entry[1]

EdgeGone(mode, inp) ==
    IF mode = "pm_trend" THEN inp.edge <= TrendExitPct ELSE inp.edge <= EdgeExitPct

ExitOk(ps, tok, mode, ts, inp) ==
    /\ InPos(ps, tok)
    /\ \/ EdgeGone(mode, inp)
       \/ MaxHoldReached(Get(ps, tok), ts)
       \/ StopHit(Get(ps, tok), inp)

\* The token has a fresh price and edge, and an exit condition of its position holds
ExitDue(ps, tok, mode, ts, inp) ==
    /\ inp.avail = "ok"
    /\ ExitOk(ps, tok, mode, ts, inp)

SpotMoveOk(mode, inp) ==
    IF mode = "pm_trend" THEN inp.edge >= TrendMoveMinPct ELSE inp.signal_ok

EnterRaw(ps, tok, mode, inp) ==
    ~InPos(ps, tok) /\ SpotMoveOk(mode, inp) /\ inp.edge >= EdgeMinPct

\* desired_shares after orderbook sizing
DesiredShares(size, inp) == IF size <= 0 THEN inp.max_shares ELSE Min(size, inp.max_shares)

EnterOk(L, tok, mode, inp) ==
    /\ EnterRaw(L.positions, tok, mode, inp)
    /\ mode = "pm_trend" => inp.signal_ok
    /\ ~SpreadTooHigh(inp)
    /\ ~NetEdgeTooLow(inp)
    /\ ~(inp.max_shares * inp.ask < MinTradeNotional)
    /\ ~(L.signals >= MaxOrdersPerTick)

\* pm_up_move_pct >= lead_lag_scale_on_odds_change_pct, last_mid = pos.last_mid or pm_mid
OddsMoved(pos, inp) ==
    LET last_mid2 == IF pos.last_mid = 0 THEN Mid2(inp) ELSE pos.last_mid
    IN  100 * Mid2(inp) >= (100 + ScaleOnOddsChangePct) * last_mid2

ScaleRaw(pos, ts, inp) ==
    /\ ScaleOnOddsChangePct > 0
    /\ OddsMoved(pos, inp)
    /\ pos.last_scale_at = -1 \/ ts - pos.last_scale_at >= ScaleCooldownS
    /\ pos.adds < ScaleMaxAdds
    /\ ScaleMaxTotalShares > 0 => pos.shares < ScaleMaxTotalShares

ScaleDesiredShares(size, pos, inp) ==
    LET base == IF size \div ScaleDiv <= 0 THEN size ELSE size \div ScaleDiv
        capped == IF ScaleMaxTotalShares > 0
                  THEN Min(base, ScaleMaxTotalShares - pos.shares)
                  ELSE base
    IN  IF capped <= 0 THEN inp.max_shares ELSE Min(capped, inp.max_shares)

ScaleOk(L, tok, ts, inp) ==
    /\ InPos(L.positions, tok)
    /\ ScaleRaw(Get(L.positions, tok), ts, inp)
    /\ ~(inp.ask - inp.bid > SlippageCap)
    /\ ~AskInAvoidZone(inp)
    /\ ~SpreadTooHigh(inp)
    /\ ~NetEdgeTooLow(inp)
    /\ ~(ScaleMaxTotalShares > 0 /\ ScaleMaxTotalShares - Get(L.positions, tok).shares <= 0)
    /\ ~(inp.max_shares * inp.ask < MinTradeNotional)
    /\ ~(L.signals >= MaxOrdersPerTick)

LeadLagBody(L, tok, mode, size, ts, inp) ==
    LET in_pos == InPos(L.positions, tok)
        due == ExitDue(L.positions, tok, mode, ts, inp)
    IN  IF inp.avail # "ok" THEN Skipped(L, tok, due)
        ELSE IF MidInAvoidZone(inp) THEN Skipped(L, tok, due)
        ELSE IF ~in_pos /\ (inp.ask - inp.bid > SlippageCap \/ AskInAvoidZone(inp))
             THEN Skipped(L, tok, due)
        ELSE IF EnterOk(L, tok, mode, inp)
             THEN PaperEnter(L, tok, inp.ask, DesiredShares(size, inp), Mid2(inp), ts)
        ELSE IF ExitOk(L.positions, tok, mode, ts, inp)
             THEN PaperExit(L, tok, inp.bid)
        ELSE IF ScaleOk(L, tok, ts, inp)
             THEN PaperScale(L, tok, inp.ask, ScaleDesiredShares(size, Get(L.positions, tok), inp), Mid2(inp), ts)
        ELSE KeepLastMid(L, tok, Mid2(inp), in_pos, due)

(* ---------------------------------------------------------------------- *)
(* Deadline ladder: scan + paper auto-trade of BUY early NO + BUY late YES *)
(* The index holds at most one maturity pair: early NO is token 1, late   *)
(* YES is token 2.  C is [last_run, pairs, last_trade, last_key].          *)
(* ---------------------------------------------------------------------- *)
EarlyNo == 1
LateYes == 2

\* _paper_buy: one leg, no record of adds / last_mid / last_scale_at
PaperBuyOk(L, price, shares) == ~(shares <= 0) /\ ~InsufficientCash(L.cash, price * shares)

PaperBuy(L, tok, price, shares, ts) ==
    IF ~PaperBuyOk(L, price, shares)
    THEN L
    ELSE LET prev_shares == SharesOf(L.positions, tok)
             prev_avg == PrevAvg(L.positions, tok, price)
         IN  [L EXCEPT !.cash = @ - price * shares,
                       !.positions = Put(@, tok,
                           [tok |-> tok, shares |-> prev_shares + shares,
                            avg_entry |-> NewAvg(prev_shares, prev_avg, shares, price),
                            opened_at |-> ts, adds |-> 0, last_mid |-> 0, last_scale_at |-> -1])]

LadderDue(C, ts) == C.last_run <= 0 \/ ts - C.last_run >= DeadlineIntervalS

\* the stand-in without a cooldown
NeverCooling(C, ts) == FALSE

LadderCooling(C, ts) == C.last_trade >= 0 /\ ts - C.last_trade < DeadlineCooldownS

\* the stand-in that buys one share of each leg whatever the budget
SingleShare(cash, cost) == IF Max(0, Min(DeadlineMaxUsd, cash)) >= cost THEN 1 ELSE 0

\* max_budget = min(pm_deadline_max_usd, paper_cash * max(0, pm_deadline_max_frac_cash))
MaxBudget(cash) == Min(DeadlineMaxUsd, cash * Max(0, cfg.max_frac_cash))

\* shares = max_budget / cost, nothing when the budget is not positive
LadderShares(cash, cost) == Max(0, MaxBudget(cash)) \div cost

\* the stand-in that prices and sizes a pair without looking at the ledger
TradableWhileHeld(L, C, inp) ==
    /\ inp.a_no > 0 /\ inp.a_yes > 0
    /\ ~(One - (inp.a_no + inp.a_yes) < DeadlineMinProfit)
    /\ LadderShares(L.cash, inp.a_no + inp.a_yes) > 0
    /\ ~C.last_key

LadderTradable(L, C, inp) ==
    /\ ~(SharesOf(L.positions, EarlyNo) > 0)
    /\ ~(SharesOf(L.positions, LateYes) > 0)
    /\ inp.a_no > 0 /\ inp.a_yes > 0
    /\ ~(One - (inp.a_no + inp.a_yes) < DeadlineMinProfit)
    /\ LadderShares(L.cash, inp.a_no + inp.a_yes) > 0
    /\ ~C.last_key

LadderBody(L, C, deadline, ts, inp) ==
    LET due == LadderDue(C, ts)
        C1 == IF due THEN [C EXCEPT !.last_run = ts, !.pairs = inp.index_pair] ELSE C
        trading == deadline = "trade" /\ ~LadderCooling(C1, ts)
        bound == (due /\ C1.pairs) \/ (trading /\ C1.pairs)
        shares == LadderShares(L.cash, inp.a_no + inp.a_yes)
        L1 == PaperBuy(L, EarlyNo, inp.a_no, shares, ts)
        ok1 == PaperBuyOk(L, inp.a_no, shares)
        L2 == PaperBuy(L1, LateYes, inp.a_yes, shares, ts)
        ok2 == PaperBuyOk(L1, inp.a_yes, shares)
    IN  IF deadline = "off"
        THEN [L |-> [L EXCEPT !.ev = NoEv], C |-> C, bound |-> FALSE]
        ELSE IF trading /\ C1.pairs /\ LadderTradable(L, C1, inp)
        THEN [L |-> [L2 EXCEPT !.signals = IF ok1 /\ ok2 THEN @ + 1 ELSE @,
                               !.ev = Ev("ladder", EarlyNo,
                                         IF ok1 /\ ok2 THEN "filled" ELSE "partial",
                                         shares, inp.a_no, 0, FALSE)],
              C |-> IF ok1 /\ ok2 THEN [C1 EXCEPT !.last_trade = ts, !.last_key = TRUE] ELSE C1,
              bound |-> TRUE]
        ELSE [L |-> [L EXCEPT !.ev = Ev("ladder", EarlyNo, "skipped", 0, 0,
                                        SharesOf(L.positions, EarlyNo), FALSE)],
              C |-> C1, bound |-> bound]

(* ---------------------------------------------------------------------- *)
(* One iteration of the fair-model loop: paper BUY opens or increases,     *)
(* paper SELL closes the position of the token.                            *)
(* inp is [sig: "none" | "buy" | "sell", fill: fill price]                 *)
(* ---------------------------------------------------------------------- *)
FairBuy(L, tok, fill_price, size, ts) ==
    LET shares == size
        notional == fill_price * shares
        has == Has(L.positions, tok)
        prev_shares == SharesOf(L.positions, tok)
        prev_avg == PrevAvg(L.positions, tok, fill_price)
    IN  IF InsufficientCash(L.cash, notional)
        THEN [L EXCEPT !.signals = @ + 1,
                       !.ev = Ev("fair_buy", tok, "rejected", shares, fill_price, prev_shares, FALSE)]
        ELSE [cash |-> L.cash - notional,
              realized |-> L.realized,
              positions |-> Put(L.positions, tok,
                                [tok |-> tok, shares |-> prev_shares + shares,
                                 avg_entry |-> NewAvg(prev_shares, prev_avg, shares, fill_price),
                                 opened_at |-> IF has THEN Get(L.positions, tok).opened_at ELSE ts,
                                 adds |-> 0, last_mid |-> 0, last_scale_at |-> -1]),
              signals |-> L.signals + 1,
              ev |-> Ev("fair_buy", tok, "filled", shares, fill_price, prev_shares, FALSE)]

FairSell(L, tok, fill_price) ==
    IF ~InPos(L.positions, tok)
    THEN [L EXCEPT !.ev = Ev("fair_sell", tok, "skipped", 0, fill_price, 0, FALSE)]
    ELSE LET shares == Get(L.positions, tok).shares
             avg_entry == AvgOr(Get(L.positions, tok).avg_entry, fill_price)
         IN  [cash |-> L.cash + fill_price * shares,
              realized |-> L.realized + Pnl(fill_price, avg_entry, shares),
              positions |-> PopTok(L.positions, tok),
              signals |-> L.signals + 1,
              ev |-> Ev("fair_sell", tok, "filled", shares, fill_price, shares, FALSE)]

FairBody(L, tok, size, ts, inp) ==
    IF inp.sig = "none"
    THEN Skipped(L, tok, FALSE)
    ELSE IF L.signals >= MaxOrdersPerTick
    THEN [L EXCEPT !.ev = Ev(IF inp.sig = "buy" THEN "fair_buy" ELSE "fair_sell", tok,
                             "throttled", 0, inp.fill, SharesOf(L.positions, tok), FALSE)]
    ELSE IF inp.sig = "buy"
    THEN FairBuy(L, tok, inp.fill, size, ts)
    ELSE FairSell(L, tok, inp.fill)

(* ---------------------------------------------------------------------- *)
(* Mark-to-market pass: one position of list(paper_positions.items()).    *)
(* inp is [has_bid, bid, in_cache, lookup_ok, px, ob_error]:               *)
(*   ob_error   pm_clob.get_orderbook(tok) raised: last_price = None       *)
(*   in_cache   the token is in runtime_cache.pm_scan_token_meta           *)
(*   lookup_ok  gamma.get_market_listing_by_token_id finds the market      *)
(*   px         the resolved price of the outcome (0 or One)               *)
(* ---------------------------------------------------------------------- *)
LookupTried(tok, cl, used, inp) ==
    /\ used < MetaLookupMax
    /\ inp.in_cache => tok \in cl

MetaKnown(tok, cl, used, inp) == inp.in_cache \/ (LookupTried(tok, cl, used, inp) /\ inp.lookup_ok)

PricesKnown(tok, cl, used, inp) == LookupTried(tok, cl, used, inp) /\ inp.lookup_ok

\* now_dt >= end_dt + grace
EndPassed(tok, ts) == ts >= EndDate[tok] + GraceS

ShouldSettle(tok, cl, used, ts, inp) ==
    /\ MetaKnown(tok, cl, used, inp)
    /\ EndPassed(tok, ts) \/ tok \in cl

\* exit notional: resolved price if closed and known, else best bid, else avg_entry
ExitNotional(pos, tok, cl, used, inp) ==
    IF tok \in cl /\ PricesKnown(tok, cl, used, inp) THEN inp.px * pos.shares
    ELSE IF inp.has_bid THEN inp.bid * pos.shares
    ELSE (pos.avg_entry[1] * pos.shares) \div pos.avg_entry[2]

Settle(L, pos, notional) ==
    [cash |-> L.cash + notional,
     realized |-> L.realized + notional - ((pos.avg_entry[1] * pos.shares) \div pos.avg_entry[2]),
     positions |-> PopTok(L.positions, pos.tok),
     signals |-> L.signals,
     ev |-> Ev("settle", pos.tok, "filled", pos.shares, notional, pos.shares, FALSE)]

(* ---------------------------------------------------------------------- *)
(* strategies/lead_lag.py: the rolling price history of one market key and *)
(* the estimators that read it.  A point is <<ts, price>>, ts in seconds.  *)
(* Returns are counted in units of 100 / PctScale percentage points and    *)
(* correlations in units of 1 / CorrOne.                                   *)
(* ---------------------------------------------------------------------- *)
PctScale == 2
CorrOne == 1000
SqrtScale == 10000
NoValue == -5000               \* None in a numeric field
NaN == -4000                   \* float("nan")
NegInf == -3000                \* float("-inf")

\* pct_change(old, new)
PctChange(old, new) == IF old = 0 THEN 0 ELSE ((new * PctScale) \div old) - PctScale

\* xs[-k:]
LastK(xs, k) == IF Len(xs) <= k THEN xs ELSE SubSeq(xs, Len(xs) - k + 1, Len(xs))

\* PriceHistory.add / PmTrendHistory.add on one list
HistAppend(xs, pt, max_len) ==
    LET ys == Append(xs, pt)
    IN  IF max_len > 0 /\ Len(ys) > max_len THEN LastK(ys, max_len) ELSE ys

\* max(lookback_points * 3, 50)
HistMaxLen(lookback_points) == Max(lookback_points * 3, 50)

\* a snapshot returned by an engine; none stands for None
NoSnap == [none |-> TRUE, spot_ret_pct |-> 0, pm_ret_pct |-> 0, edge_pct |-> 0]

\* LeadLagEngine.update_and_compute after the add: the snapshot over lookback n
LeadLagSnap(spot, pm, n) ==
    IF n <= 1 \/ Len(spot) < n \/ Len(pm) < n THEN NoSnap
    ELSE LET spot_ret == PctChange(spot[Len(spot) - n + 1][2], spot[Len(spot)][2])
             pm_ret == PctChange(pm[Len(pm) - n + 1][2], pm[Len(pm)][2])
         IN  [none |-> FALSE, spot_ret_pct |-> spot_ret, pm_ret_pct |-> pm_ret,
              edge_pct |-> spot_ret - pm_ret]

\* PmTrendEngine.update_and_compute after the add
TrendSnap(pm, n) ==
    IF n <= 0 \/ Len(pm) < n + 1 THEN NoSnap
    ELSE [none |-> FALSE, spot_ret_pct |-> 0,
          pm_ret_pct |-> PctChange(pm[Len(pm) - n][2], pm[Len(pm)][2]), edge_pct |-> 0]

\* EdgeTrader._compute_edge for side YES
TraderSnap(spot, pm, n) ==
    IF Len(spot) < n \/ Len(pm) < n THEN NoSnap
    ELSE LET spot_ret == PctChange(spot[Len(spot) - n + 1][2], spot[Len(spot)][2])
             pm_ret == PctChange(pm[Len(pm) - n + 1][2], pm[Len(pm)][2])
         IN  [none |-> FALSE, spot_ret_pct |-> spot_ret, pm_ret_pct |-> pm_ret,
              edge_pct |-> spot_ret - pm_ret]

\* one return per interval of a price list
ReturnsOf(pts) == [i \in 1 .. (Len(pts) - 1) |-> PctChange(pts[i][2], pts[i + 1][2])]

\* (ts_list[i] - ts_list[i - 1]).total_seconds() * 1000.0, ts_list = the ts of prices 2..n
DtsMs(pts) == [i \in 1 .. (Len(pts) - 2) |-> (pts[i + 2][1] - pts[i + 1][1]) * 1000]

RECURSIVE SeqSum(_)
SeqSum(xs) == IF xs = <<>> THEN 0 ELSE Head(xs) + SeqSum(Tail(xs))

RECURSIVE InsertSorted(_, _)
InsertSorted(x, xs) ==
    IF xs = <<>> THEN <<x>>
    ELSE IF x <= Head(xs) THEN <<x>> \o xs
    ELSE <<Head(xs)>> \o InsertSorted(x, Tail(xs))

RECURSIVE SortedSeq(_)
SortedSeq(xs) == IF xs = <<>> THEN <<>> ELSE InsertSorted(Head(xs), SortedSeq(Tail(xs)))

\* dts_ms_sorted[len(dts_ms_sorted) // 2]
MedianDt(dts) == SortedSeq(dts)[(Len(dts) \div 2) + 1]

\* len(xs) x (xs[i] - mean), which is a whole number
Dev(xs) == LET total == SeqSum(xs) IN [i \in 1 .. Len(xs) |-> Len(xs) * xs[i] - total]

DevDot(a, b) ==
    LET da == Dev(a)
        db == Dev(b)
    IN  SeqSum([i \in 1 .. Len(a) |-> da[i] * db[i]])

RECURSIVE SqrtBetween(_, _, _)
SqrtBetween(n, lo, hi) ==
    IF lo >= hi THEN lo
    ELSE LET mid == (lo + hi + 1) \div 2
         IN  IF mid * mid <= n THEN SqrtBetween(n, mid, hi) ELSE SqrtBetween(n, lo, mid - 1)

\* floor of the square root
ISqrt(n) == SqrtBetween(n, 0, Min(n, 40000))

\* _corr(a, b): num / (da**0.5 * db**0.5), NaN for short or flat input
Corr(a, b) ==
    IF Len(a) # Len(b) \/ Len(a) < 5 THEN NaN
    ELSE LET num == DevDot(a, b)
             da == DevDot(a, a)
             db == DevDot(b, b)
         IN  IF da <= 0 \/ db <= 0 THEN NaN
             ELSE (((num * SqrtScale) \div ISqrt(da * SqrtScale)) * CorrOne) \div ISqrt(db * SqrtScale)

\* _std(xs) < 1e-9: on whole-number returns the deviation is 0 or far above
StdTiny(xs) == xs = <<>> \/ DevDot(xs, xs) = 0

\* the stand-in that never finds a series flat
NeverTiny(xs) == FALSE

\* the two slices of the lag candidate: s_ret[:-lag] and p_ret[lag:]
LagA(s_ret, lag) == IF lag = 0 THEN s_ret ELSE SubSeq(s_ret, 1, Len(s_ret) - lag)
LagB(p_ret, lag) == IF lag = 0 THEN p_ret ELSE SubSeq(p_ret, lag + 1, Len(p_ret))

\* the scan over lag = 0 .. max_lag; st is [best_lag, best_c, second_c]
RECURSIVE ScanLags(_, _, _, _, _, _)
ScanLags(s_ret, p_ret, lag, max_lag, min_corr_points, st) ==
    IF lag > max_lag THEN st
    ELSE LET a == LagA(s_ret, lag)
             b == LagB(p_ret, lag)
             c == Corr(a, b)
             st1 == IF Len(a) # Len(b) THEN st
                    ELSE IF Len(a) < Max(min_corr_points, 5) THEN st
                    ELSE IF c = NaN THEN st
                    ELSE IF c > st.best_c
                    THEN [best_lag |-> lag, best_c |-> c, second_c |-> st.best_c]
                    ELSE IF c > st.second_c THEN [st EXCEPT !.second_c = c]
                    ELSE st
         IN  ScanLags(s_ret, p_ret, lag + 1, max_lag, min_corr_points, st1)

Abs(x) == IF x < 0 THEN -x ELSE x

\* the stand-in that accepts every gap
AnyGap(gap, min_corr_gap) == TRUE

\* gap is None or gap >= min_corr_gap
GapOk(gap, min_corr_gap) == gap = NoValue \/ gap >= min_corr_gap

Failed(lag_points, dt_ms, reason) ==
    [ok |-> FALSE, lag_ms |-> NoValue, lag_points |-> lag_points, dt_ms |-> dt_ms,
     best_corr |-> NoValue, second_best_corr |-> NoValue, corr_gap |-> NoValue, reason |-> reason]

NoEst == Failed(NoValue, NoValue, "not_called")

\* LeadLagEngine.estimate_market_lag; h is [known, spot, pm], q the keyword arguments
EstimateMarketLag(h, q) ==
    LET n_prices == Min(Len(h.spot), Len(h.pm))
        spot == LastK(h.spot, n_prices)
        pm == LastK(h.pm, n_prices)
        s_ret == ReturnsOf(spot)
        p_ret == ReturnsOf(pm)
        dts_ms == DtsMs(spot)
        dt_ms == MedianDt(dts_ms)
        st == ScanLags(s_ret, p_ret, 0, Max(0, q.max_lag_points), q.min_corr_points,
                       [best_lag |-> NoValue, best_c |-> NegInf, second_c |-> NegInf])
        gap == IF st.second_c # NegInf THEN st.best_c - st.second_c ELSE NoValue
        ok == Abs(st.best_c) >= q.min_abs_corr /\ GapOk(gap, q.min_corr_gap)
    IN  IF ~h.known THEN Failed(NoValue, NoValue, "no_history")
        ELSE IF n_prices < Max(q.min_points, 3) THEN Failed(n_prices, NoValue, "not_enough_prices")
        ELSE IF Len(s_ret) < Max(q.min_points - 1, 3) THEN Failed(Len(s_ret), NoValue, "not_enough_returns")
        ELSE IF dts_ms = <<>> THEN Failed(NoValue, NoValue, "no_dt")
        ELSE IF dt_ms <= 0 THEN Failed(NoValue, NoValue, "bad_dt")
        ELSE IF StdTiny(s_ret) \/ StdTiny(p_ret) THEN Failed(Len(s_ret), dt_ms, "low_variance")
        ELSE IF st.best_lag = NoValue \/ st.best_c = NegInf THEN Failed(NoValue, dt_ms, "no_valid_corr")
        ELSE [ok |-> ok,
              lag_ms |-> st.best_lag * dt_ms,
              lag_points |-> Len(s_ret) - st.best_lag,
              dt_ms |-> dt_ms,
              best_corr |-> st.best_c,
              second_best_corr |-> IF st.second_c # NegInf THEN st.second_c ELSE NoValue,
              corr_gap |-> gap,
              reason |-> IF ok THEN "none"
                         ELSE IF Abs(st.best_c) < q.min_abs_corr THEN "corr_too_low"
                         ELSE "corr_gap_too_low"]

\* LeadLagEngine.estimate_spot_noise_pct: sqrt(var) of the last returns, var over
\* len - 1; the result is in units of 1 / CorrOne of a return unit
EstimateSpotNoise(h, q) ==
    LET n_prices == Len(h.spot)
        n_take == Min(n_prices, Max(q.window_points + 1, q.min_points + 1))
        rets == ReturnsOf(LastK(h.spot, n_take))
        n == Len(rets)
        var_num == DevDot(rets, rets)          \* n * n * sum((x - m)^2)
    IN  IF ~h.known THEN NoValue
        ELSE IF n_prices < Max(q.min_points + 1, 3) THEN NoValue
        ELSE IF n < q.min_points THEN NoValue
        ELSE IF var_num < 0 THEN NoValue
        ELSE ISqrt((var_num * SqrtScale) \div (n * n * Max(n - 1, 1))) * (CorrOne \div 100)

VARIABLES
    now,                 \* ts of the current tick
    killswitch,          \* the kill-switch file exists
    portfolio,           \* pm_paper_portfolio.json: [cash_usd, realized_pnl_usd, positions]
    closed,              \* tokens whose market Gamma reports closed
    deadline_cache,      \* runtime_cache.pm_deadline_*: [last_run, pairs, last_trade, last_key]
    pc,                  \* where write_outputs stands: idle, ll, ladder, fair, mark
    mkts,                \* the markets of this tick: the configured ones, then open positions
    idx,                 \* index of the next market of the running loop
    paper_cash,
    paper_realized,
    paper_positions,
    signals_emitted,
    p_bound,             \* the local p of write_outputs has been bound in this tick
    meta_lookups_used,
    settled,             \* tokens whose position this mark pass has force-settled
    mark_items,          \* what is left of list(paper_positions.items())
    ev,                  \* the last ledger operation, for stating properties
    seen_trade_ids,      \* PolymarketPositionStore._seen_trade_ids
    net_shares_by_token, \* PolymarketPositionStore._net_shares_by_token
    fills_total          \* PolymarketPositionStore._fills_total

VARIABLES
    now_ms,                      \* _now_ms() as sampled by the running tick
    gamma_market_by_slug,        \* RuntimeCache.gamma_market_by_slug (0: no entry)
    gamma_market_fetched_at_ms,  \* RuntimeCache.gamma_market_fetched_at_ms (0: no entry)
    gamma_upstream,              \* what Gamma answers for each slug right now
    got                          \* the last market handed to the decision logic, and from where

cache_vars == <<now_ms, gamma_market_by_slug, gamma_market_fetched_at_ms, gamma_upstream, got>>

VARIABLES
    pool_pc,             \* where the fetch stages of write_outputs stand: idle, gamma, ob
    par,                 \* use_parallel_gamma / use_parallel of the running stage
    futs,                \* [g, ob]: the state of each fetch task: none, pending, ok, err
    joined,              \* tasks of the running stage whose result has been consumed
    orderbook_by_token,  \* unset, none (fetch failed) or book
    processed,           \* tokens the decision loop handled with a book in this tick
    history,             \* per token, how many mids the rolling history has received
    actor                \* the thread that took the last step: main or worker

pool_vars == <<pool_pc, par, futs, joined, orderbook_by_token, processed, history, actor>>

VARIABLES
    loop_pc,               \* where main() stands: start, tick, sleep, exited
    interval_s,            \* cfg.interval_s
    run_once,              \* RUN_ONCE
    run_ticks,             \* RUN_TICKS (0: no limit)
    tick_count,
    consecutive_failures,
    sleep_s                \* the argument of the last time.sleep

loop_vars == <<loop_pc, interval_s, run_once, run_ticks, tick_count, consecutive_failures, sleep_s>>

VARIABLES
    index_items,   \* the items of pm_markets_index at the last ladder scan
    ladder_pairs   \* runtime_cache.gamma_market_by_slug["__pm_deadline_pairs"]

pair_vars == <<index_items, ladder_pairs>>

VARIABLES
    gate_now,        \* the clock of the tick whose trading pass ran last, in seconds
    last_trade_at,   \* runtime_cache.pm_deadline_last_trade_ms (-1: no trade yet)
    last_trade_key,  \* runtime_cache.pm_deadline_last_trade_key (0: None)
    legs_held,       \* pairs of which the ledger holds the early No or the late Yes token
    trade_log        \* the ladder trades executed so far: [key, at]

gate_vars == <<gate_now, last_trade_at, last_trade_key, legs_held, trade_log>>

VARIABLES
    tick_outcome     \* how the write_outputs call of the last tick went

fail_vars == <<tick_outcome>>

VARIABLES
    equity,          \* the local equity of the mark pass
    mtm_rows,        \* the local mtm_rows of the mark pass: [tok, value]
    state_out        \* paper_state_out as written by the last mark pass

eq_vars == <<equity, mtm_rows, state_out>>

VARIABLES
    holder,          \* the thread inside "with self._lock" of the position store (none: free)
    thr,             \* per thread, where its apply_fill call stands and with what fill
    applied          \* per trade_id, the fill that was counted for it ([tok, delta]; tok 0: none)

conc_vars == <<holder, thr, applied>>

(* ---------------------------------------------------------------------- *)
(* The auto-side selection of the trend variant (write_outputs): one ctx   *)
(* per side of a binary market, both carrying the market's group key.      *)
(* ---------------------------------------------------------------------- *)
VARIABLES
    side_pc,                 \* "start", "gate" or "done": how far the tick has come
    pm_trend_auto_side,      \* PM_TREND_AUTO_SIDE
    held_tok,                \* the token of the open paper position, "" without one
    pm_trend_ret_by_token,   \* dict token -> trailing return, NoValue for None
    best_token_by_group,     \* dict key -> token
    group_has_open_pos,      \* set of group keys
    auto_side_reason,        \* token -> what the auto-side gate answered
    enter_ok                 \* token -> entry still allowed after the gate

side_vars == <<side_pc, pm_trend_auto_side, held_tok, pm_trend_ret_by_token, best_token_by_group,
               group_has_open_pos, auto_side_reason, enter_ok>>


YesTok == "tok_yes"
NoTok == "tok_no"
SoloTok == "tok_solo"
SideTokens == {YesTok, NoTok, SoloTok}
GroupKey == "will-btc-close-above"      \* market_ref or market_name, never a token id
RetValues == {-1, 0, 1}                 \* trailing returns a snapshot may carry

\* ctxs: with auto-side one ctx per side, Yes first, with the group key;
\* a market configured with a single outcome has no auto_side_group
Ctxs ==
    IF pm_trend_auto_side
    THEN << [token_id |-> YesTok, auto_side_group |-> GroupKey],
            [token_id |-> NoTok, auto_side_group |-> GroupKey],
            [token_id |-> SoloTok, auto_side_group |-> ""] >>
    ELSE << [token_id |-> YesTok, auto_side_group |-> ""],
            [token_id |-> SoloTok, auto_side_group |-> ""] >>

EmptyDict == <<>>

\* d.get(k), with none for a missing key
DictGet(d, k, none) == IF k \in DOMAIN d THEN d[k] ELSE none

\* d[k] = v
DictPut(d, k, v) == [x \in DOMAIN d \cup {k} |-> IF x = k THEN v ELSE d[x]]

\* "for ctx in ctxs: ... pos = paper_positions.get(tok) ... group_has_open_pos.add(g)"
OpenGroups(ctxs, held) ==
    {ctxs[i].auto_side_group : i \in {j \in 1 .. Len(ctxs) :
        ctxs[j].auto_side_group # "" /\ ctxs[j].token_id # "" /\ ctxs[j].token_id = held}}

\* a selection that compares every candidate with the current best of its group
KeepHighest(best, g, tok, rets) ==
    LET cur == DictGet(best, g, "")
        cur_ret == IF cur # "" THEN DictGet(rets, cur, NoValue) ELSE NoValue
    IN  IF cur_ret = NoValue \/ rets[tok] > cur_ret THEN DictPut(best, g, tok) ELSE best

\* one round of "Pick best token per group": the membership test is made with
\* the token against a dict whose keys are group keys
PickStep(best, g, tok, rets) ==
    IF tok \notin DOMAIN best THEN DictPut(best, g, tok)
    ELSE KeepHighest(best, g, tok, rets)

RECURSIVE PickBest(_, _, _)
PickBest(ctxs, rets, best) ==
    IF ctxs = <<>> THEN best
    ELSE LET g == Head(ctxs).auto_side_group
             tok == Head(ctxs).token_id
         IN  PickBest(Tail(ctxs), rets,
                      IF g = "" \/ tok = "" \/ DictGet(rets, tok, NoValue) = NoValue
                      THEN best
                      ELSE PickStep(best, g, tok, rets))

\* the auto-side gate of one ctx; "" lets the entry through
AutoSideGate(ctx, in_pos) ==
    LET g == ctx.auto_side_group
        best_tok == DictGet(best_token_by_group, g, "")
    IN  IF ~(cfg.strategy_mode = "pm_trend" /\ pm_trend_auto_side) \/ g = "" THEN ""
        ELSE IF ~in_pos /\ g \in group_has_open_pos THEN "other_side_open"
        ELSE IF ~in_pos
             THEN IF best_tok # "" /\ best_tok # ctx.token_id THEN "not_best_side"
                  ELSE IF best_tok = "" THEN "no_best_side"
                  ELSE ""
        ELSE ""

SideInit ==
    /\ side_pc = "start"
    /\ pm_trend_auto_side = FALSE
    /\ held_tok = ""
    /\ pm_trend_ret_by_token = EmptyDict
    /\ best_token_by_group = EmptyDict
    /\ group_has_open_pos = {}
    /\ auto_side_reason = [t \in SideTokens |-> ""]
    /\ enter_ok = [t \in SideTokens |-> FALSE]

(* ---------------------------------------------------------------------- *)
(* Order-book sizing: the tool PolymarketOrderbookSizer.size_max_trade and *)
(* the agent's inline sizing of an entry. Prices are in cents, sizes in    *)
(* shares, fractions in 1/FracDen; a USD amount is in cents / FracDen and  *)
(* a share count is a ratio n / d of 1 / FracDen shares, so that the       *)
(* division "usd / best" is exact.                                         *)
(* ---------------------------------------------------------------------- *)
VARIABLES
    size_pc,    \* "idle" until a sizing call was made
    sizer_q,    \* size_max_trade's arguments with the book it fetched
    sizer_r,    \* its SizingResult, or raised
    agent_q,    \* the agent's sizing inputs
    agent_r     \* max_usdc, max_shares and desired_shares after the sizing block

size_vars == <<size_pc, sizer_q, sizer_r, agent_q, agent_r>>

FracDen == 10

Ratio(n, d) == [n |-> n, d |-> d]

RatLess(a, b) == a.n * b.d < b.n * a.d

\* shares, a whole number, as a ratio
Shares(s) == Ratio(s * FracDen, 1)

\* _sum_usdc: shares = sum(l.size), usdc = sum(l.price * l.size)
RECURSIVE SumShares(_)
SumShares(levels) == IF levels = <<>> THEN 0 ELSE Head(levels).size + SumShares(Tail(levels))

RECURSIVE SumUsdc(_)
SumUsdc(levels) ==
    IF levels = <<>> THEN 0 ELSE Head(levels).price * Head(levels).size + SumUsdc(Tail(levels))

\* the levels of one side inside the band, in the order of the book
InBand(side, levels, limit) ==
    SelectSeq(levels, LAMBDA lv : IF side = "BUY" THEN lv.price <= limit ELSE lv.price >= limit)

NoResult == [raised |-> FALSE, best_price |-> 0, band_limit_price |-> 0,
             liquidity_shares_in_band |-> 0, liquidity_usdc_in_band |-> 0,
             suggested_max_usdc |-> 0, suggested_max_shares |-> Ratio(0, 1)]

\* a sizer that never rounds up to the minimum order size
NoRoundUp(min_order_size, shares, liq_shares, best, hard_cap) == FALSE

\* "if book.min_order_size is not None and suggested_shares < book.min_order_size:
\*      if liq_shares >= book.min_order_size and (book.min_order_size * best) <= hard_cap_usdc"
RoundUp(min_order_size, shares, liq_shares, best, hard_cap) ==
    /\ min_order_size # NoValue
    /\ RatLess(shares, Shares(min_order_size))
    /\ liq_shares >= min_order_size
    /\ min_order_size * best * FracDen <= hard_cap

\* size_max_trade on the levels of the requested side, as get_book parsed them
SizeMaxTrade(side, levels, min_order_size, slippage_cap, max_fraction, hard_cap) ==
    IF levels = <<>> THEN [NoResult EXCEPT !.raised = TRUE]
    ELSE LET best == levels[1].price
             limit == IF side = "BUY" THEN best + slippage_cap ELSE Max(0, best - slippage_cap)
             in_band == InBand(side, levels, limit)
             liq_shares == SumShares(in_band)
             liq_usdc == SumUsdc(in_band)
             usdc == Min(hard_cap, liq_usdc * max_fraction)
             shares == IF best <= 0 THEN Ratio(0, 1) ELSE Ratio(usdc, best)
             up == RoundUp(min_order_size, shares, liq_shares, best, hard_cap)
         IN  [raised |-> FALSE, best_price |-> best, band_limit_price |-> limit,
              liquidity_shares_in_band |-> liq_shares, liquidity_usdc_in_band |-> liq_usdc,
              suggested_max_usdc |-> IF up THEN min_order_size * best * FracDen ELSE usdc,
              suggested_max_shares |-> IF up THEN Shares(min_order_size) ELSE shares]

\* best_bid_ask's ask: the lowest positive ask price, None without one
BestAskOf(asks) ==
    LET px == {asks[i].price : i \in {j \in 1 .. Len(asks) : asks[j].price > 0}}
    IN  IF px = {} THEN NoValue ELSE CHOOSE p \in px : \A o \in px : p <= o

NoAgentResult == [max_usdc |-> NoValue, max_shares |-> Ratio(0, 1), desired_shares |-> Ratio(0, 1)]

\* the agent's "Orderbook sizing for entry" of a ctx whose book has asks
AgentSizing(asks, order_size_shares, slippage_cap, max_fraction, hard_cap) ==
    LET ask == BestAskOf(asks)
        best_ask == IF ask # NoValue THEN ask ELSE asks[1].price
        limit == best_ask + slippage_cap
        liq_usdc == SumUsdc(InBand("BUY", asks, limit))
        max_usdc == Min(hard_cap, liq_usdc * max_fraction)
        max_shares == IF best_ask <= 0 THEN Ratio(0, 1) ELSE Ratio(max_usdc, best_ask)
        desired == Shares(order_size_shares)
    IN  [max_usdc |-> max_usdc, max_shares |-> max_shares,
         desired_shares |-> IF order_size_shares <= 0 THEN max_shares
                            ELSE IF RatLess(max_shares, desired) THEN max_shares ELSE desired]

NoSizerArgs == [side |-> "", levels |-> <<>>, min_order_size |-> NoValue, slippage_cap |-> 0,
                max_fraction |-> 0, hard_cap |-> 0]

NoAgentArgs == [asks |-> <<>>, order_size_shares |-> 0, slippage_cap |-> 0, max_fraction |-> 0,
                hard_cap |-> 0]

SizeInit ==
    /\ size_pc = "idle"
    /\ sizer_q = NoSizerArgs
    /\ sizer_r = NoResult
    /\ agent_q = NoAgentArgs
    /\ agent_r = NoAgentResult

(* ---------------------------------------------------------------------- *)
(* The risk-neutral probability of the Deribit connector. Prices are whole *)
(* numbers, sigma and mark_iv are in 1/100, times in TinyYears (1e-6 year).*)
(* The value of the normal CDF is kept as the side of 1/2 it falls on.     *)
(* ---------------------------------------------------------------------- *)
VARIABLES
    rn_pc,      \* "idle" until a call was made
    rn_q,       \* the arguments of the call of risk_neutral_prob_above_strike
    rn_r,       \* what that call did: [raised, reason, p]
    model_q,    \* the model dict and the summary compute_rn_probability_from_model saw
    model_r     \* what it did: [raised, reason, rn_prob]

rn_vars == <<rn_pc, rn_q, rn_r, model_q, model_r>>

SigmaScale == 100
TinyYears == 1

Raise(text) == [raised |-> TRUE, reason |-> text, p |-> "none"]

\* _norm_cdf(d2) by the sign of d2
NormCdfClass(d2_sign) ==
    IF d2_sign < 0 THEN "below_half" ELSE IF d2_sign = 0 THEN "half" ELSE "above_half"

\* the signs d2 = (ln(F / K) - 0.5 sigma^2 T) / (sigma sqrt(T)) can have for valid
\* arguments: negative when F <= K, any sign otherwise
D2Signs(forward, strike) == IF forward <= strike THEN {-1} ELSE {-1, 0, 1}

\* a test that lets every time to expiry pass
AnyTime(t_years) == TRUE

\* the opposite of "if t_years <= 0: raise"
PositiveTime(t_years) == ~(t_years <= 0)

\* risk_neutral_prob_above_strike(forward, strike, sigma, t_years), d2_sign
\* standing for the arithmetic on valid arguments
RiskNeutralProbAboveStrike(forward, strike, sigma, t_years, d2_sign) ==
    IF forward <= 0 \/ strike <= 0 THEN Raise("forward and strike must be > 0")
    ELSE IF sigma <= 0 THEN Raise("sigma must be > 0")
    ELSE IF ~PositiveTime(t_years) THEN Raise("t_years must be > 0")
    ELSE [raised |-> FALSE, reason |-> "", p |-> NormCdfClass(d2_sign)]

\* python's "a or b" on numbers, NoValue being None
OrElse(a, b) == IF a # NoValue /\ a # 0 THEN a ELSE b

\* "sigma = iv / 100.0 if iv > 3.0 else iv"
SigmaOf(iv) == IF iv > 3 * SigmaScale THEN iv \div 100 ELSE iv

\* 1.0 - p_above
Complement(p) ==
    IF p = "below_half" THEN "above_half" ELSE IF p = "above_half" THEN "below_half" ELSE p

NoRnArgs == [called |-> FALSE, forward |-> 0, strike |-> 0, sigma |-> 0, t_years |-> 0]

RnArgsOf(forward, strike, sigma, t_years) ==
    [called |-> TRUE, forward |-> forward, strike |-> strike, sigma |-> sigma, t_years |-> t_years]

\* the arguments compute_rn_probability_from_model passes on, NoRnArgs when it
\* raises before the call
PassedOn(q) ==
    IF q.strike = NoValue \/ q.direction \notin {"above", "below"} \/ q.mark_iv = NoValue
    THEN NoRnArgs
    ELSE RnArgsOf(OrElse(q.underlying_price, OrElse(q.underlying_index, OrElse(q.index_price, 0))),
                  q.strike, SigmaOf(q.mark_iv), Max(q.expiry - q.now, TinyYears))

\* compute_rn_probability_from_model with an instrument_name in the model
ComputeRnProbabilityFromModel(q, d2_sign) ==
    IF q.strike = NoValue THEN [raised |-> TRUE, reason |-> "deribit_rn model requires 'strike'", rn_prob |-> "none"]
    ELSE IF q.direction \notin {"above", "below"}
         THEN [raised |-> TRUE, reason |-> "direction must be above or below", rn_prob |-> "none"]
    ELSE IF q.mark_iv = NoValue
         THEN [raised |-> TRUE, reason |-> "Deribit summary missing mark_iv", rn_prob |-> "none"]
    ELSE LET a == PassedOn(q)
             r == RiskNeutralProbAboveStrike(a.forward, a.strike, a.sigma, a.t_years, d2_sign)
         IN  IF r.raised THEN [raised |-> TRUE, reason |-> r.reason, rn_prob |-> "none"]
             ELSE [raised |-> FALSE, reason |-> "",
                   rn_prob |-> IF q.direction = "above" THEN r.p ELSE Complement(r.p)]

NoModel == [strike |-> NoValue, direction |-> "", expiry |-> 0, now |-> 0, underlying_price |-> NoValue,
            underlying_index |-> NoValue, index_price |-> NoValue, mark_iv |-> NoValue]

pure_vars == <<side_vars, size_vars, rn_vars>>

RnInit ==
    /\ rn_pc = "idle"
    /\ rn_q = NoRnArgs
    /\ rn_r = [raised |-> FALSE, reason |-> "", p |-> "none"]
    /\ model_q = NoModel
    /\ model_r = [raised |-> FALSE, reason |-> "", rn_prob |-> "none"]

PureInit == SideInit /\ SizeInit /\ RnInit

VARIABLES
    hist,            \* LeadLagEngine._hist[key]: [known, spot, pm], lists of <<ts, price>>
    lookback_points, \* the lookback_points the agent passes for the key
    est,             \* the last estimate_market_lag call: [q, r], arguments and result
    noise,           \* the last estimate_spot_noise_pct call: [q, r]
    trend_pm,        \* PmTrendEngine._hist[key].pm
    trader,          \* EdgeTrader: [spot_hist, pm_hist, position, trades]
    snap             \* what the last update returned

calc_vars == <<hist, lookback_points, est, noise, trend_pm, trader, snap, pure_vars>>

NoTrader == [spot_hist |-> <<>>, pm_hist |-> <<>>, position |-> NoValue, trades |-> 0]

NoHist == [known |-> FALSE, spot |-> <<>>, pm |-> <<>>]

NoArgs == [max_lag_points |-> 0, min_points |-> 0, min_corr_points |-> 0,
           min_abs_corr |-> 0, min_corr_gap |-> 0]

NoNoiseArgs == [window_points |-> 0, min_points |-> 0]

EstInit ==
    /\ hist = NoHist
    /\ lookback_points = 1
    /\ est = [q |-> NoArgs, r |-> NoEst]
    /\ noise = [q |-> NoNoiseArgs, r |-> NoValue]
    /\ trend_pm = <<>>
    /\ trader = NoTrader
    /\ snap = NoSnap

CalcInit == EstInit /\ PureInit

ext_vars == <<pair_vars, gate_vars, fail_vars, eq_vars, conc_vars, calc_vars>>

aux_vars == <<cache_vars, pool_vars, loop_vars, ext_vars>>

Refs == {1, 2}                 \* market slugs the configuration refers to

NoRead == [ref |-> 0, src |-> "none", val |-> 0]

\* RuntimeCache() as built at process start
CacheInit ==
    /\ now_ms = 1
    /\ gamma_market_by_slug = [r \in Refs |-> 0]
    /\ gamma_market_fetched_at_ms = [r \in Refs |-> 0]
    /\ gamma_upstream = [r \in Refs |-> 1]
    /\ got = NoRead

NoFuts == [g |-> [r \in Refs |-> "none"], ob |-> [t \in Tokens |-> "none"]]

PoolInit ==
    /\ pool_pc = "idle"
    /\ par = FALSE
    /\ futs = NoFuts
    /\ joined = {}
    /\ orderbook_by_token = [t \in Tokens |-> "unset"]
    /\ processed = {}
    /\ history = [t \in Tokens |-> 0]
    /\ actor = "main"

\* main() before it has read its configuration
LoopInit ==
    /\ loop_pc = "start"
    /\ interval_s = 0
    /\ run_once = FALSE
    /\ run_ticks = 0
    /\ tick_count = 0
    /\ consecutive_failures = 0
    /\ sleep_s = 0

\* no ladder scan has run yet
PairInit ==
    /\ index_items = <<>>
    /\ ladder_pairs = <<>>

\* RuntimeCache() at process start, an empty ledger
GateInit ==
    /\ gate_now = 0
    /\ last_trade_at = -1
    /\ last_trade_key = 0
    /\ legs_held = {}
    /\ trade_log = <<>>

\* no tick has run yet
FailInit == tick_outcome = "none"

NoOut == [cash_usd |-> 0, equity_usd |-> 0, positions |-> <<>>, rows |-> <<>>, written |-> FALSE]

\* no mark pass has run yet
EqInit ==
    /\ equity = 0
    /\ mtm_rows = <<>>
    /\ state_out = NoOut

Threads == {"wss", "main"}     \* the fill-stream thread and the reconcile path of the main thread

ConcTradeIds == {1, 2}

NoCall == [pc |-> "idle", trade_id |-> 0, token_id |-> 0, delta |-> 0, net_read |-> 0]

\* PolymarketPositionStore() with no call in progress
ConcInit ==
    /\ holder = "none"
    /\ thr = [w \in Threads |-> NoCall]
    /\ applied = [i \in ConcTradeIds |-> [tok |-> 0, delta |-> 0]]

ExtInit == PairInit /\ GateInit /\ FailInit /\ EqInit /\ ConcInit /\ CalcInit

AuxInit == CacheInit /\ PoolInit /\ LoopInit /\ ExtInit

tick_vars == <<cfg, now, killswitch, portfolio, closed, deadline_cache, pc, mkts, idx, paper_cash,
               paper_realized, paper_positions, signals_emitted, p_bound, meta_lookups_used,
               settled, mark_items, ev>>

vars == <<cfg, now, killswitch, portfolio, closed, deadline_cache, pc, mkts, idx, paper_cash,
          paper_realized, paper_positions, signals_emitted, p_bound, meta_lookups_used, settled,
          mark_items, ev, seen_trade_ids, net_shares_by_token, fills_total, aux_vars>>

store_vars == <<seen_trade_ids, net_shares_by_token, fills_total>>

Ledger == [cash |-> paper_cash, realized |-> paper_realized, positions |-> paper_positions,
           signals |-> signals_emitted, ev |-> ev]

SetLedger(L) ==
    /\ paper_cash' = L.cash
    /\ paper_realized' = L.realized
    /\ paper_positions' = L.positions
    /\ signals_emitted' = L.signals
    /\ ev' = L.ev

\* locals of write_outputs do not outlive the call
DropLocals ==
    /\ killswitch' = FALSE
    /\ mkts' = <<>>
    /\ paper_cash' = 0
    /\ paper_realized' = 0
    /\ paper_positions' = <<>>
    /\ signals_emitted' = 0
    /\ p_bound' = FALSE
    /\ meta_lookups_used' = 0
    /\ settled' = {}
    /\ mark_items' = <<>>
    /\ idx' = 1

FreshState == [cash_usd |-> StartBalance, realized_pnl_usd |-> 0, positions |-> <<>>]

Init ==
    /\ cfg \in Configs
    /\ now = 0
    /\ killswitch = FALSE
    /\ portfolio = FreshState
    /\ closed = {}
    /\ deadline_cache = [last_run |-> 0, pairs |-> FALSE, last_trade |-> -1, last_key |-> FALSE]
    /\ pc = "idle"
    /\ mkts = <<>>
    /\ idx = 1
    /\ paper_cash = 0
    /\ paper_realized = 0
    /\ paper_positions = <<>>
    /\ signals_emitted = 0
    /\ p_bound = FALSE
    /\ meta_lookups_used = 0
    /\ settled = {}
    /\ mark_items = <<>>
    /\ ev = NoEv
    /\ seen_trade_ids = {}
    /\ net_shares_by_token = [t \in Tokens |-> 0]
    /\ fills_total = 0
    /\ AuxInit

LLInputs ==
    [avail : {"missing_price", "stale_or_warmup", "ok"}, bid : Prices, ask : Prices,
     edge : EdgeVals, signal_ok : BOOLEAN, max_shares : 0 .. OrderSize]

LadderInputs == [index_pair : BOOLEAN, a_no : 0 .. (One - 1), a_yes : 0 .. (One - 1)]

FairInputs == [sig : {"none", "buy", "sell"}, fill : Prices]

MarkInputs ==
    {i \in [has_bid : BOOLEAN, bid : Prices, in_cache : BOOLEAN, lookup_ok : BOOLEAN,
            px : {0, One}, ob_error : BOOLEAN] : i.ob_error => ~i.has_bid}

\* Once the clock stands at MaxNow a further tick moves the ladder's
\* timestamps one unit into the past instead (only their age is ever used),
\* no further than the age the code compares them with.
Older(C) ==
    [C EXCEPT !.last_run = IF @ <= 0 THEN @ ELSE Max(@ - 1, Max(0, MaxNow - DeadlineIntervalS)),
              !.last_trade = IF @ < 0 THEN @ ELSE Max(@ - 1, Max(0, MaxNow - DeadlineCooldownS))]

\* mkts.append(...) for every open position whose token is not yet in mkts
WithOpenPositions(ms, ps) ==
    ms \o SelectSeq([k \in 1 .. Len(ps) |-> IF ps[k].shares > 0 THEN ps[k].tok ELSE 0],
                    LAMBDA t : t # 0 /\ \A j \in 1 .. Len(ms) : ms[j] # t)

WithinBounds ==
    /\ portfolio.cash_usd <= MaxCash
    /\ portfolio.realized_pnl_usd \in (0 - MaxRealized) .. MaxRealized
    /\ \A k \in 1 .. Len(portfolio.positions) : portfolio.positions[k].shares <= MaxShares

(* write_outputs starts: the portfolio file is loaded into the locals *)
TickStart ==
    /\ pc = "idle"
    /\ WithinBounds
    /\ now' = Min(now + 1, MaxNow)
    /\ killswitch' \in BOOLEAN
    /\ \E newly \in SUBSET Closable : closed' = closed \cup newly
    /\ paper_cash' = IF portfolio.cash_usd = 0 THEN StartBalance ELSE portfolio.cash_usd
    /\ paper_realized' = portfolio.realized_pnl_usd
    /\ paper_positions' = portfolio.positions
    /\ signals_emitted' = 0
    /\ p_bound' = FALSE
    /\ meta_lookups_used' = 0
    /\ settled' = {}
    /\ mark_items' = <<>>
    /\ mkts' = WithOpenPositions(MarketMap, portfolio.positions)
    /\ idx' = 1
    /\ ev' = NoEv
    /\ pc' = IF cfg.strategy_mode = "fair_model" THEN "fair" ELSE "ll"
    /\ deadline_cache' = IF now = MaxNow THEN Older(deadline_cache) ELSE deadline_cache
    /\ UNCHANGED <<cfg, portfolio, store_vars, aux_vars>>

(* one market of the lead-lag / pm_trend loop *)
LeadLagStep ==
    /\ pc = "ll"
    /\ \E inp \in LLInputs :
          /\ inp.bid <= inp.ask
          /\ SetLedger(LeadLagBody(Ledger, mkts[idx], cfg.strategy_mode, cfg.order_size, now, inp))
    /\ IF idx < Len(mkts)
       THEN idx' = idx + 1 /\ pc' = "ll"
       ELSE idx' = 1 /\ pc' = "ladder"
    /\ UNCHANGED <<cfg, now, killswitch, portfolio, closed, deadline_cache, mkts, p_bound,
                   meta_lookups_used, settled, mark_items, store_vars, aux_vars>>

(* the deadline-ladder block, then on to the fair loop or the mark pass *)
LadderStep ==
    /\ pc = "ladder"
    /\ \E inp \in LadderInputs :
          LET R == LadderBody(Ledger, deadline_cache, cfg.deadline, now, inp)
          IN  /\ SetLedger(R.L)
              /\ deadline_cache' = R.C
              /\ p_bound' = R.bound
              /\ IF cfg.strategy_mode = "lead_lag"
                 THEN pc' = "mark" /\ mark_items' = R.L.positions
                 ELSE pc' = "fair" /\ mark_items' = <<>>
    /\ idx' = 1
    /\ UNCHANGED <<cfg, now, killswitch, portfolio, closed, mkts, meta_lookups_used, settled, store_vars, aux_vars>>

(* one market of the fair-model loop (mkts_fair is empty in lead_lag mode) *)
FairStep ==
    /\ pc = "fair"
    /\ \E inp \in FairInputs :
          LET L == FairBody(Ledger, mkts[idx], cfg.order_size, now, inp)
          IN  /\ SetLedger(L)
              /\ IF idx < Len(mkts)
                 THEN idx' = idx + 1 /\ pc' = "fair" /\ mark_items' = <<>>
                 ELSE idx' = 1 /\ pc' = "mark" /\ mark_items' = L.positions
    /\ UNCHANGED <<cfg, now, killswitch, portfolio, closed, deadline_cache, mkts, p_bound,
                   meta_lookups_used, settled, store_vars, aux_vars>>

(* mark pass: the position's market has ended or closed, settle it *)
MarkSettleStep ==
    /\ pc = "mark" /\ mark_items # <<>>
    /\ \E inp \in MarkInputs :
          LET pos == Head(mark_items)
          IN  /\ pos.shares > 0
              /\ ShouldSettle(pos.tok, closed, meta_lookups_used, now, inp)
              /\ SetLedger(Settle(Ledger, pos, ExitNotional(pos, pos.tok, closed, meta_lookups_used, inp)))
              /\ meta_lookups_used' = IF LookupTried(pos.tok, closed, meta_lookups_used, inp)
                                      THEN meta_lookups_used + 1 ELSE meta_lookups_used
    /\ mark_items' = Tail(mark_items)
    /\ settled' = settled \cup {Head(mark_items).tok}
    /\ UNCHANGED <<cfg, now, killswitch, portfolio, closed, deadline_cache, pc, mkts, idx, p_bound,
                   store_vars>>

MarkSettle == MarkSettleStep /\ UNCHANGED aux_vars

(* mark pass: the position stays open and is valued; p is bound *)
MarkValueWith(inp) ==
    /\ pc = "mark" /\ mark_items # <<>>
    /\ LET pos == Head(mark_items)
       IN  /\ pos.shares > 0 => ~ShouldSettle(pos.tok, closed, meta_lookups_used, now, inp)
           /\ pos.shares > 0 => p_bound
           /\ meta_lookups_used' = IF pos.shares > 0 /\ LookupTried(pos.tok, closed, meta_lookups_used, inp)
                                   THEN meta_lookups_used + 1 ELSE meta_lookups_used
           /\ ev' = Ev("mark", pos.tok, IF inp.ob_error THEN "no_book" ELSE "open",
                       pos.shares, 0, pos.shares, FALSE)
    /\ mark_items' = Tail(mark_items)
    /\ UNCHANGED <<cfg, now, killswitch, portfolio, closed, deadline_cache, pc, mkts, idx, paper_cash,
                   paper_realized, paper_positions, signals_emitted, p_bound, settled, store_vars>>

MarkValue == (\E inp \in MarkInputs : MarkValueWith(inp)) /\ UNCHANGED aux_vars

(* mark pass: the position stays open, p is unbound: p.get raises, the    *)
(* handler of write_outputs catches it and the portfolio is not written   *)
MarkCrash ==
    /\ pc = "mark" /\ mark_items # <<>>
    /\ \E inp \in MarkInputs :
          LET pos == Head(mark_items)
          IN  /\ pos.shares > 0
              /\ ~ShouldSettle(pos.tok, closed, meta_lookups_used, now, inp)
              /\ ~p_bound
              /\ ev' = Ev("crash", pos.tok, IF inp.ob_error THEN "no_book" ELSE "error",
                          pos.shares, 0, pos.shares, FALSE)
    /\ pc' = "idle"
    /\ DropLocals
    /\ UNCHANGED <<cfg, now, portfolio, closed, deadline_cache, store_vars, aux_vars>>

(* end of the mark pass: write_json(p_pm_paper_portfolio, paper_state_out) *)
SaveStep ==
    /\ pc = "mark" /\ mark_items = <<>>
    /\ portfolio' = [cash_usd |-> paper_cash, realized_pnl_usd |-> paper_realized,
                     positions |-> paper_positions]
    /\ pc' = "idle"
    /\ DropLocals
    /\ ev' = Ev("save", 0, "written", 0, 0, 0, FALSE)
    /\ UNCHANGED <<cfg, now, closed, deadline_cache, store_vars>>

SavePortfolio == SaveStep /\ UNCHANGED aux_vars

Next ==
    \/ TickStart
    \/ LeadLagStep
    \/ LadderStep
    \/ FairStep
    \/ MarkSettle
    \/ MarkValue
    \/ MarkCrash
    \/ SavePortfolio

Spec == Init /\ [][Next]_vars

(* ---------------------------------------------------------------------- *)
(* PolymarketPositionStore.apply_fill, called by the fill stream and by   *)
(* the reconcile path                                                      *)
(* ---------------------------------------------------------------------- *)
TradeIds == {1, 2, 3}
Sides == {"buy", "sell", "unknown"}
FillSizes == {0, 1, 2}

\* delta = size if side == "buy" else (-size if side == "sell" else 0.0)
Delta(side, size) == IF side = "buy" THEN size ELSE IF side = "sell" THEN 0 - size ELSE 0

\* a store that remembers no trade id
NeverSeen(trade_id, seen) == FALSE

\* if trade_id in self._seen_trade_ids: return False
AlreadySeen(trade_id, seen) == trade_id \in seen

ApplyFill ==
    \E trade_id \in TradeIds, token_id \in Tokens, side \in Sides, size \in FillSizes :
        /\ IF ~(size > 0) \/ Delta(side, size) = 0
           THEN /\ UNCHANGED store_vars
                /\ ev' = [NoEv EXCEPT !.kind = "fill", !.tok = token_id, !.status = "ignored"]
           ELSE IF AlreadySeen(trade_id, seen_trade_ids)
           THEN /\ UNCHANGED store_vars
                /\ ev' = [NoEv EXCEPT !.kind = "fill", !.tok = token_id, !.status = "duplicate"]
           ELSE /\ seen_trade_ids' = seen_trade_ids \cup {trade_id}
                /\ net_shares_by_token' =
                       [net_shares_by_token EXCEPT ![token_id] = @ + Delta(side, size)]
                /\ fills_total' = fills_total + 1
                /\ ev' = [NoEv EXCEPT !.kind = "fill", !.tok = token_id, !.status = "applied"]
        /\ UNCHANGED <<cfg, now, killswitch, portfolio, closed, deadline_cache, pc, mkts, idx,
                       paper_cash, paper_realized, paper_positions, signals_emitted, p_bound,
                       meta_lookups_used, settled, mark_items, aux_vars>>

NextFills == ApplyFill

SpecFills == Init /\ [][NextFills]_vars

LiveSpec == Init /\ [][Next]_vars /\ WF_vars(Next)

(* ---------------------------------------------------------------------- *)
(* RuntimeCache: Gamma markets by slug, read through _ttl_ok.              *)
(* ---------------------------------------------------------------------- *)
\* a freshness test that accepts every entry
AlwaysFresh(fetched_at_ms, ttl_ms, at_ms) == TRUE

TtlOk(fetched_at_ms, ttl_ms, at_ms) ==
    IF ttl_ms <= 0 THEN FALSE
    ELSE IF fetched_at_ms = 0 THEN FALSE
    ELSE at_ms - fetched_at_ms <= ttl_ms

\* the cached market, or 0 for None
CacheGetGammaMarket(by_slug, fetched_at, key, at_ms, ttl_ms) ==
    IF by_slug[key] # 0 /\ TtlOk(fetched_at[key], ttl_ms, at_ms) THEN by_slug[key] ELSE 0

(* gm = _cache_get_gamma_market(...); if gm is None: gm = get_market_by_slug; *)
(* _cache_set_gamma_market(...). A failed fetch raises and leaves no market. *)
ResolveMarket ==
    /\ \E ref \in Refs, fetch_ok \in BOOLEAN :
          LET gm == CacheGetGammaMarket(gamma_market_by_slug, gamma_market_fetched_at_ms,
                                        ref, now_ms, GammaTtlMs)
          IN  IF gm # 0
              THEN /\ got' = [ref |-> ref, src |-> "cache", val |-> gm]
                   /\ UNCHANGED <<gamma_market_by_slug, gamma_market_fetched_at_ms>>
              ELSE IF fetch_ok
              THEN /\ gamma_market_by_slug' = [gamma_market_by_slug EXCEPT ![ref] = gamma_upstream[ref]]
                   /\ gamma_market_fetched_at_ms' = [gamma_market_fetched_at_ms EXCEPT ![ref] = now_ms]
                   /\ got' = [ref |-> ref, src |-> "gamma", val |-> gamma_upstream[ref]]
              ELSE /\ got' = [ref |-> ref, src |-> "unavailable", val |-> 0]
                   /\ UNCHANGED <<gamma_market_by_slug, gamma_market_fetched_at_ms>>
    /\ UNCHANGED <<now_ms, gamma_upstream, pool_vars, tick_vars, store_vars, ext_vars, loop_vars>>

\* the next tick samples the clock again; Gamma may have changed meanwhile
NextTickMs ==
    /\ \E d \in 1 .. (GammaTtlMs + 1) :
          /\ now_ms + d <= MaxMs
          /\ now_ms' = now_ms + d
    /\ gamma_upstream' \in [Refs -> 1 .. MaxVer]
    /\ got' = NoRead
    /\ UNCHANGED <<gamma_market_by_slug, gamma_market_fetched_at_ms, pool_vars, tick_vars, store_vars, ext_vars, loop_vars>>

NextCache == ResolveMarket \/ NextTickMs

SpecCache == Init /\ [][NextCache]_vars

(* ---------------------------------------------------------------------- *)
(* The fetch stages of a tick: Gamma markets for the slugs that miss the   *)
(* cache, then the order books of the resolved tokens, each stage          *)
(* dispatched to the worker pool when it has more than one task and        *)
(* joined by the orchestrating thread; then the decision loop.             *)
(* Market m has slug m and token m.                                        *)
(* ---------------------------------------------------------------------- *)
\* use_parallel = executor is not None and workers > 1 and len(tasks) > 1
UseParallel(tasks) == PoolWorkers > 1 /\ Cardinality(tasks) > 1

Dispatched(f) == {j \in DOMAIN f : f[j] # "none"}

\* a join that goes on as soon as one result is in
FirstJoined(done, f) == done # {} \/ Dispatched(f) = {}

\* for fut in as_completed(futs): the loop ends when every future has been consumed
AllJoined(done, f) == done = Dispatched(f)

NoPending(f) == \A j \in DOMAIN f : f[j] # "pending"

\* in the serial branch a task starts only when the previous result has been consumed
MayStart(f, done) == par \/ \A j \in DOMAIN f : f[j] \in {"ok", "err"} => j \in done

\* a fetch task that stores its market in the cache itself
StoringTask(by_slug, ref, gm) == [by_slug EXCEPT ![ref] = gm]

\* _fetch_gamma returns (ref, gm, ms, err) and leaves the cache alone
FetchGammaTask(by_slug, ref, gm) == by_slug

\* orderbook_by_token[tok] = ob, where a failed _fetch_ob returned ob = None
StoreBook(obs, tok, status) == [obs EXCEPT ![tok] = IF status = "ok" THEN "book" ELSE "none"]

BeginTick ==
    /\ pool_pc = "idle"
    /\ \E d \in 1 .. (GammaTtlMs + 1) :
          /\ now_ms + d <= MaxMs
          /\ now_ms' = now_ms + d
    /\ gamma_upstream' \in [Refs -> 1 .. MaxVer]
    /\ LET refs_to_fetch ==
              {r \in Refs : CacheGetGammaMarket(gamma_market_by_slug, gamma_market_fetched_at_ms,
                                                 r, now_ms', GammaTtlMs) = 0}
       IN  /\ futs' = [NoFuts EXCEPT !.g = [r \in Refs |-> IF r \in refs_to_fetch THEN "pending" ELSE "none"]]
           /\ par' = UseParallel(refs_to_fetch)
    /\ pool_pc' = "gamma"
    /\ joined' = {}
    /\ orderbook_by_token' = [t \in Tokens |-> "unset"]
    /\ processed' = {}
    /\ actor' = "main"
    /\ got' = NoRead
    /\ UNCHANGED <<gamma_market_by_slug, gamma_market_fetched_at_ms, history, tick_vars, store_vars, ext_vars, loop_vars>>

FetchGamma(ref) ==
    /\ pool_pc = "gamma"
    /\ futs.g[ref] = "pending"
    /\ MayStart(futs.g, joined)
    /\ \E status \in {"ok", "err"} : futs' = [futs EXCEPT !.g[ref] = status]
    /\ gamma_market_by_slug' = FetchGammaTask(gamma_market_by_slug, ref, gamma_upstream[ref])
    /\ actor' = IF par THEN "worker" ELSE "main"
    /\ UNCHANGED <<pool_pc, par, joined, orderbook_by_token, processed, history, now_ms,
                   gamma_market_fetched_at_ms, gamma_upstream, got, tick_vars, store_vars, ext_vars, loop_vars>>

\* ref, gm, ms, err = fut.result(); if gm is not None: _cache_set_gamma_market(...)
JoinGamma(ref) ==
    /\ pool_pc = "gamma"
    /\ futs.g[ref] \in {"ok", "err"}
    /\ ref \notin joined
    /\ joined' = joined \cup {ref}
    /\ IF futs.g[ref] = "ok"
       THEN /\ gamma_market_by_slug' = [gamma_market_by_slug EXCEPT ![ref] = gamma_upstream[ref]]
            /\ gamma_market_fetched_at_ms' = [gamma_market_fetched_at_ms EXCEPT ![ref] = now_ms]
       ELSE UNCHANGED <<gamma_market_by_slug, gamma_market_fetched_at_ms>>
    /\ actor' = "main"
    /\ UNCHANGED <<pool_pc, par, futs, orderbook_by_token, processed, history, now_ms,
                   gamma_upstream, got, tick_vars, store_vars, ext_vars, loop_vars>>

\* the markets whose token could be resolved get their order book fetched
DispatchOb ==
    /\ pool_pc = "gamma"
    /\ AllJoined(joined, futs.g)
    /\ LET unique_tokens ==
              {t \in Tokens : CacheGetGammaMarket(gamma_market_by_slug, gamma_market_fetched_at_ms,
                                                   t, now_ms, GammaTtlMs) # 0}
       IN  /\ futs' = [futs EXCEPT !.ob = [t \in Tokens |-> IF t \in unique_tokens THEN "pending" ELSE "none"]]
           /\ par' = UseParallel(unique_tokens)
    /\ pool_pc' = "ob"
    /\ joined' = {}
    /\ actor' = "main"
    /\ UNCHANGED <<orderbook_by_token, processed, history, cache_vars, tick_vars, store_vars, ext_vars, loop_vars>>

FetchOb(tok) ==
    /\ pool_pc = "ob"
    /\ futs.ob[tok] = "pending"
    /\ MayStart(futs.ob, joined)
    /\ \E status \in {"ok", "err"} : futs' = [futs EXCEPT !.ob[tok] = status]
    /\ actor' = IF par THEN "worker" ELSE "main"
    /\ UNCHANGED <<pool_pc, par, joined, orderbook_by_token, processed, history, cache_vars,
                   tick_vars, store_vars, ext_vars, loop_vars>>

\* tok, ob, ms, err = fut.result(); orderbook_by_token[tok] = ob
JoinOb(tok) ==
    /\ pool_pc = "ob"
    /\ futs.ob[tok] \in {"ok", "err"}
    /\ tok \notin joined
    /\ joined' = joined \cup {tok}
    /\ orderbook_by_token' = StoreBook(orderbook_by_token, tok, futs.ob[tok])
    /\ actor' = "main"
    /\ UNCHANGED <<pool_pc, par, futs, processed, history, cache_vars, tick_vars, store_vars, ext_vars, loop_vars>>

\* for c in ctxs: a market without a book is skipped, the others are decided on
Decide ==
    /\ pool_pc = "ob"
    /\ AllJoined(joined, futs.ob)
    /\ processed' = {t \in Tokens : orderbook_by_token[t] = "book"}
    /\ history' = [t \in Tokens |-> IF orderbook_by_token[t] = "book" THEN history[t] + 1 ELSE history[t]]
    /\ pool_pc' = "idle"
    /\ actor' = "main"
    /\ UNCHANGED <<par, futs, joined, orderbook_by_token, cache_vars, tick_vars, store_vars, ext_vars, loop_vars>>

NextPool ==
    \/ BeginTick
    \/ \E ref \in Refs : FetchGamma(ref)
    \/ \E ref \in Refs : JoinGamma(ref)
    \/ DispatchOb
    \/ \E tok \in Tokens : FetchOb(tok)
    \/ \E tok \in Tokens : JoinOb(tok)
    \/ Decide

SpecPool == Init /\ [][NextPool]_vars

(* ---------------------------------------------------------------------- *)
(* main(): the tick loop with its failure counter and backoff.             *)
(* ---------------------------------------------------------------------- *)
Intervals == {15, 30, 400}     \* INTERVAL_S values (the default is 15)

\* a backoff that doubles without end
UncappedSleep(interval, failures) == interval * 2 ^ failures

\* sleep_s = interval_s; if consecutive_failures > 0:
\*     sleep_s = min(interval_s * (2 ** min(consecutive_failures, 4)), 300.0)
BackoffSleep(interval, failures) ==
    IF failures > 0 THEN Min(interval * 2 ^ Min(failures, BackoffMaxExp), MaxSleepS) ELSE interval

\* a loop that gives up when a tick has failed
StopOnFailure(ok, once, limit_reached) ==
    IF ~ok \/ once \/ limit_reached THEN "exited" ELSE "sleep"

\* if run_once: return; if run_ticks > 0 and tick_count >= run_ticks: return; time.sleep(sleep_s)
AfterTick(ok, once, limit_reached) ==
    IF once THEN "exited" ELSE IF limit_reached THEN "exited" ELSE "sleep"

LoadConfig ==
    /\ loop_pc = "start"
    /\ interval_s' \in Intervals
    /\ run_once' \in BOOLEAN
    /\ run_ticks' \in 0 .. MaxRunTicks
    /\ loop_pc' = "tick"
    /\ UNCHANGED <<tick_count, consecutive_failures, sleep_s, cache_vars, pool_vars, tick_vars, store_vars, ext_vars>>

\* ok: the tick ran through; decision_error: the decision pass raised inside the
\* "try: ... except Exception as e:" of write_outputs, which records the error
\* and returns; raised: an exception left write_outputs
TickOutcomes == {"ok", "decision_error", "raised"}

\* "files = write_outputs(...); consecutive_failures = 0" is reached
Returned(outcome) == outcome # "raised"

\* one pass of 'while True': write_outputs returns (ok) or raises
LoopTick ==
    /\ loop_pc = "tick"
    /\ tick_count < MaxTicks
    /\ \E outcome \in TickOutcomes : LET ok == Returned(outcome) IN
          /\ tick_outcome' = outcome
          /\ tick_count' = tick_count + 1
          /\ consecutive_failures' = IF ok THEN 0 ELSE consecutive_failures + 1
          /\ loop_pc' = AfterTick(ok, run_once, run_ticks > 0 /\ tick_count' >= run_ticks)
          /\ sleep_s' = IF loop_pc' = "sleep"
                        THEN BackoffSleep(interval_s, consecutive_failures')
                        ELSE sleep_s
    /\ UNCHANGED <<interval_s, run_once, run_ticks, cache_vars, pool_vars, tick_vars, store_vars,
                   pair_vars, gate_vars, eq_vars, conc_vars, calc_vars>>

\* time.sleep returns
Wake ==
    /\ loop_pc = "sleep"
    /\ loop_pc' = "tick"
    /\ UNCHANGED <<interval_s, run_once, run_ticks, tick_count, consecutive_failures, sleep_s,
                   cache_vars, pool_vars, tick_vars, store_vars, ext_vars>>

NextLoop == LoadConfig \/ LoopTick \/ Wake

SpecLoop == Init /\ [][NextLoop]_vars /\ WF_vars(NextLoop)

(* ---------------------------------------------------------------------- *)
(* The lead-lag iteration on its own: a tick that has loaded a portfolio   *)
(* holding one position of token 1 and enough cash, with the order size    *)
(* either fixed or left to the liquidity of the book                       *)
(* (PM_ORDER_SIZE_SHARES = 0, "if desired_shares <= 0: desired_shares =    *)
(* max_shares").                                                           *)
(* ---------------------------------------------------------------------- *)
HeldPositions ==
    [tok : {1}, shares : 1 .. ScaleMaxTotalShares, avg_entry : {<<2, 1>>},
     opened_at : {MaxNow - 1, MaxNow}, adds : 0 .. ScaleMaxAdds,
     last_mid : {0} \cup 2 .. (2 * (One - 1)), last_scale_at : {-1, MaxNow - 1, MaxNow}]

InitScale ==
    /\ cfg \in {[strategy_mode |-> "lead_lag", deadline |-> "off", order_size |-> n, max_frac_cash |-> 1] :
                    n \in {0, OrderSize}}
    /\ now = MaxNow
    /\ killswitch = FALSE
    /\ \E pos \in HeldPositions :
          /\ paper_positions = <<pos>>
          /\ portfolio = [cash_usd |-> (One - 1) * One, realized_pnl_usd |-> 0, positions |-> <<pos>>]
    /\ paper_cash = (One - 1) * One
    /\ paper_realized = 0
    /\ closed = {}
    /\ deadline_cache = [last_run |-> 0, pairs |-> FALSE, last_trade |-> -1, last_key |-> FALSE]
    /\ pc = "ll"
    /\ mkts = MarketMap
    /\ idx = 1
    /\ signals_emitted = 0
    /\ p_bound = FALSE
    /\ meta_lookups_used = 0
    /\ settled = {}
    /\ mark_items = <<>>
    /\ ev = NoEv
    /\ seen_trade_ids = {}
    /\ net_shares_by_token = [t \in Tokens |-> 0]
    /\ fills_total = 0
    /\ AuxInit

NextScale == LeadLagStep

SpecScale == InitScale /\ [][NextScale]_vars

(* ---------------------------------------------------------------------- *)
(* The second half of a tick whose market loop placed no order: the        *)
(* deadline ladder in trade mode, then the fair-model loop.                *)
(* ---------------------------------------------------------------------- *)
LadderStartWith(map) ==
    /\ now \in 1 .. MaxNow
    /\ killswitch \in BOOLEAN
    /\ paper_cash \in 0 .. ((One - 1) * One)
    /\ portfolio = [cash_usd |-> paper_cash, realized_pnl_usd |-> 0, positions |-> <<>>]
    /\ paper_positions = <<>>
    /\ paper_realized = 0
    /\ closed = {}
    /\ \E run \in {0, now} :
          deadline_cache = [last_run |-> run, pairs |-> run # 0, last_trade |-> -1, last_key |-> FALSE]
    /\ pc = "ladder"
    /\ mkts = map
    /\ idx = 1
    /\ signals_emitted = 0
    /\ p_bound = FALSE
    /\ meta_lookups_used = 0
    /\ settled = {}
    /\ mark_items = <<>>
    /\ ev = NoEv
    /\ seen_trade_ids = {}
    /\ net_shares_by_token = [t \in Tokens |-> 0]
    /\ fills_total = 0
    /\ AuxInit

LadderStart == LadderStartWith(MarketMap)

InitLadder ==
    /\ cfg \in {[strategy_mode |-> m, deadline |-> "trade", order_size |-> OrderSize, max_frac_cash |-> 1] :
                    m \in {"pm_trend", "fair_model"}}
    /\ LadderStart

NextLadder == LadderStep \/ FairStep

SpecLadder == InitLadder /\ [][NextLadder]_vars

(* The same half tick under every setting of PM_DEADLINE_MAX_FRACTION_CASH, *)
(* which is read with float() and used without an upper limit.             *)
FracCash == {1, 2}

InitAttempt ==
    /\ cfg \in {[strategy_mode |-> m, deadline |-> "trade", order_size |-> OrderSize, max_frac_cash |-> f] :
                    m \in {"pm_trend", "fair_model"}, f \in FracCash}
    /\ LadderStart

SpecAttempt == InitAttempt /\ [][NextLadder]_vars

(* The same half tick with a market map that lists the markets of both     *)
(* tokens, so that the fair-model loop visits two markets after the ladder. *)
BothMarkets == <<1, 2>>

InitExit ==
    /\ cfg \in {[strategy_mode |-> m, deadline |-> "trade", order_size |-> OrderSize, max_frac_cash |-> 1] :
                    m \in {"pm_trend", "fair_model"}}
    /\ LadderStartWith(BothMarkets)

SpecExit == InitExit /\ [][NextLadder]_vars

(* ---------------------------------------------------------------------- *)
(* The ladder scan: the market index is grouped by base key, each group is *)
(* sorted by end date and adjacent maturities are paired.  An item is its  *)
(* position in the index (slug), its base key (0: the key came out empty)  *)
(* and its parsed end date (0: _parse_gamma_end_date returned None).       *)
(* ---------------------------------------------------------------------- *)
BaseKeys == 0 .. 2

EndDates == 0 .. 2

IndexItem == [base : BaseKeys, end_dt : EndDates]

IndexLists == UNION {[1 .. n -> IndexItem] : n \in 0 .. MaxItems}

Slugged(items) == [i \in 1 .. Len(items) |-> [slug |-> i, base |-> items[i].base, end_dt |-> items[i].end_dt]]

\* "if end_dt is None: continue", "if not base: continue"
Groupable(it) == it.end_dt # 0 /\ it.base # 0

\* groups.setdefault(base, []).append(it2)
Group(items, base) == SelectSeq(items, LAMBDA it : Groupable(it) /\ it.base = base)

RECURSIVE InsertByEnd(_, _)
InsertByEnd(x, s) ==
    IF s = <<>> THEN <<x>>
    ELSE IF s[Len(s)].end_dt <= x.end_dt THEN Append(s, x)
    ELSE Append(InsertByEnd(x, SubSeq(s, 1, Len(s) - 1)), s[Len(s)])

\* sorted(group, key=_end_dt): stable
RECURSIVE SortedByEnd(_)
SortedByEnd(s) ==
    IF s = <<>> THEN <<>>
    ELSE InsertByEnd(s[Len(s)], SortedByEnd(SubSeq(s, 1, Len(s) - 1)))

\* the stand-in that lets equal maturities through
NotEarlier(early, late) == ~(late.end_dt < early.end_dt)

\* "if l_dt <= e_dt: continue"
IsLadder(early, late) == ~(late.end_dt <= early.end_dt)

RECURSIVE AdjacentPairs(_, _, _)
AdjacentPairs(base, gs, i) ==
    IF i > Len(gs) - 1 THEN <<>>
    ELSE (IF IsLadder(gs[i], gs[i + 1])
          THEN <<[base |-> base, early |-> gs[i], late |-> gs[i + 1]]>>
          ELSE <<>>) \o AdjacentPairs(base, gs, i + 1)

\* the keys of groups, in the order of their first item
RECURSIVE GroupKeys(_)
GroupKeys(items) ==
    IF items = <<>> THEN <<>>
    ELSE LET front == GroupKeys(SubSeq(items, 1, Len(items) - 1))
             it == items[Len(items)]
         IN  IF Groupable(it) /\ ~(\E k \in 1 .. Len(front) : front[k] = it.base)
             THEN Append(front, it.base)
             ELSE front

RECURSIVE PairsOfGroups(_, _, _)
PairsOfGroups(items, keys, k) ==
    IF k > Len(keys) THEN <<>>
    ELSE LET group == Group(items, keys[k])
         IN  (IF Len(group) < 2 THEN <<>> ELSE AdjacentPairs(keys[k], SortedByEnd(group), 1))
             \o PairsOfGroups(items, keys, k + 1)

\* "if len(pairs) > pm_deadline_max_pairs: pairs = pairs[:pm_deadline_max_pairs]"
BuildPairs(items) ==
    LET pairs == PairsOfGroups(items, GroupKeys(items), 1)
    IN  IF Len(pairs) > DeadlineMaxPairs THEN SubSeq(pairs, 1, DeadlineMaxPairs) ELSE pairs

\* the "if due:" block of the ladder: the index is read and the pair list replaced
ScanIndex ==
    /\ ladder_pairs' = BuildPairs(index_items)
    /\ UNCHANGED <<index_items, gate_vars, fail_vars, eq_vars, conc_vars, calc_vars, tick_vars, store_vars, cache_vars, pool_vars, loop_vars>>

\* a ladder configuration in front of its first scan, the index holding any list
InitPairs ==
    /\ cfg = [strategy_mode |-> "lead_lag", deadline |-> "trade", order_size |-> OrderSize, max_frac_cash |-> 1]
    /\ now = 0
    /\ killswitch = FALSE
    /\ portfolio = FreshState
    /\ closed = {}
    /\ deadline_cache = [last_run |-> 0, pairs |-> FALSE, last_trade |-> -1, last_key |-> FALSE]
    /\ pc = "idle"
    /\ mkts = <<>>
    /\ idx = 1
    /\ paper_cash = 0
    /\ paper_realized = 0
    /\ paper_positions = <<>>
    /\ signals_emitted = 0
    /\ p_bound = FALSE
    /\ meta_lookups_used = 0
    /\ settled = {}
    /\ mark_items = <<>>
    /\ ev = NoEv
    /\ seen_trade_ids = {}
    /\ net_shares_by_token = [t \in Tokens |-> 0]
    /\ fills_total = 0
    /\ CacheInit /\ PoolInit /\ LoopInit
    /\ index_items \in {Slugged(items) : items \in IndexLists}
    /\ ladder_pairs = <<>>
    /\ GateInit
    /\ FailInit
    /\ EqInit
    /\ ConcInit
    /\ CalcInit

NextPairs == ScanIndex

SpecPairs == InitPairs /\ [][NextPairs]_vars

(* ---------------------------------------------------------------------- *)
(* The trading pass of the ladder over several pairs and ticks: what it    *)
(* remembers of its last trade, and which pair it may trade next.  A pair  *)
(* is its trade key; legs leave the ledger when the mark pass settles them *)
(* or another loop sells them.                                             *)
(* ---------------------------------------------------------------------- *)
PairKeys == {1, 2}

PairOrder == <<1, 2>>          \* the cached pair list

\* "if we already hold either leg, skip", the price and size tests, and
\* "if last_trade_key and last_trade_key == trade_key: continue"
PairFires(k, held, profitable, last_key) ==
    /\ k \notin held
    /\ k \in profitable
    /\ ~(last_key # 0 /\ last_key = k)

\* "for p in pairs: ... break": the first pair that passes every test (0: none)
RECURSIVE FirstFiring(_, _, _, _)
FirstFiring(i, held, profitable, last_key) ==
    IF i > Len(PairOrder) THEN 0
    ELSE IF PairFires(PairOrder[i], held, profitable, last_key) THEN PairOrder[i]
    ELSE FirstFiring(i + 1, held, profitable, last_key)

\* the trading pass of one tick, d seconds after the previous one
TradePass ==
    /\ \E d \in 1 .. 2, profitable \in SUBSET PairKeys :
          /\ gate_now + d <= MaxGateNow
          /\ gate_now' = gate_now + d
          /\ LET k == IF LadderCooling([last_trade |-> last_trade_at], gate_now') THEN 0
                       ELSE FirstFiring(1, legs_held, profitable, last_trade_key)
             IN  IF k = 0
                 THEN UNCHANGED <<last_trade_at, last_trade_key, legs_held, trade_log>>
                 ELSE /\ last_trade_at' = gate_now'
                      /\ last_trade_key' = k
                      /\ legs_held' = legs_held \cup {k}
                      /\ trade_log' = Append(trade_log, [key |-> k, at |-> gate_now'])
    /\ UNCHANGED <<pair_vars, fail_vars, eq_vars, conc_vars, calc_vars, tick_vars, store_vars, cache_vars, pool_vars, loop_vars>>

\* both legs of a pair have left the ledger (settled by the mark pass, or sold)
LegsClosed ==
    /\ \E k \in legs_held : legs_held' = legs_held \ {k}
    /\ UNCHANGED <<gate_now, last_trade_at, last_trade_key, trade_log>>
    /\ UNCHANGED <<pair_vars, fail_vars, eq_vars, conc_vars, calc_vars, tick_vars, store_vars, cache_vars, pool_vars, loop_vars>>

NextRefire == TradePass \/ LegsClosed

SpecRefire == Init /\ [][NextRefire]_vars

(* ---------------------------------------------------------------------- *)
(* The mark pass with its equity bookkeeping: equity starts as the cash at *)
(* the start of the pass, every position that stays open adds its value,   *)
(* and the end of the pass writes cash, equity and positions.              *)
(* ---------------------------------------------------------------------- *)
OpenPositions ==
    [tok : Tokens, shares : 1 .. OrderSize, avg_entry : {<<1, 1>>, <<2, 1>>}, opened_at : {1},
     adds : {0}, last_mid : {0}, last_scale_at : {-1}]

Ledgers ==
    {<<>>} \cup {<<a>> : a \in OpenPositions}
           \cup {<<a, b>> : a \in {x \in OpenPositions : x.tok = 1}, b \in {x \in OpenPositions : x.tok = 2}}

\* lp = last_price if last_price is not None else avg_entry; value = shares * lp
MarkedValue(pos, inp) ==
    IF inp.has_bid THEN inp.bid * pos.shares ELSE (pos.avg_entry[1] * pos.shares) \div pos.avg_entry[2]

\* write_outputs at "equity = float(paper_cash)", the trading loops behind it
InitEquity ==
    /\ cfg = [strategy_mode |-> "lead_lag", deadline |-> "off", order_size |-> OrderSize, max_frac_cash |-> 1]
    /\ now \in 1 .. MaxNow
    /\ killswitch = FALSE
    /\ paper_cash \in 0 .. StartBalance
    /\ paper_positions \in Ledgers
    /\ paper_realized = 0
    /\ portfolio = [cash_usd |-> paper_cash, realized_pnl_usd |-> 0, positions |-> paper_positions]
    /\ closed \in SUBSET Closable
    /\ deadline_cache = [last_run |-> 0, pairs |-> FALSE, last_trade |-> -1, last_key |-> FALSE]
    /\ pc = "mark"
    /\ mkts = MarketMap
    /\ idx = 1
    /\ signals_emitted = 0
    /\ p_bound \in BOOLEAN
    /\ meta_lookups_used = 0
    /\ settled = {}
    /\ mark_items = paper_positions
    /\ ev = NoEv
    /\ seen_trade_ids = {}
    /\ net_shares_by_token = [t \in Tokens |-> 0]
    /\ fills_total = 0
    /\ CacheInit /\ PoolInit /\ LoopInit /\ PairInit /\ GateInit /\ FailInit /\ ConcInit /\ CalcInit
    /\ equity = paper_cash
    /\ mtm_rows = <<>>
    /\ state_out = NoOut

OtherAux == <<cache_vars, pool_vars, loop_vars, pair_vars, gate_vars, fail_vars, conc_vars, calc_vars>>

\* the position is settled: cash is credited, "continue"
EqSettle ==
    /\ MarkSettleStep
    /\ UNCHANGED <<eq_vars, OtherAux>>

\* the position stays open: "equity += value", a row of mtm_rows
EqValue ==
    /\ \E inp \in MarkInputs :
          /\ MarkValueWith(inp)
          /\ LET pos == Head(mark_items)
             IN  IF pos.shares > 0
                 THEN /\ equity' = equity + MarkedValue(pos, inp)
                      /\ mtm_rows' = Append(mtm_rows, [tok |-> pos.tok, value |-> MarkedValue(pos, inp)])
                 ELSE UNCHANGED <<equity, mtm_rows>>
    /\ UNCHANGED <<state_out, OtherAux>>

\* paper_state_out is built and written
EqSave ==
    /\ SaveStep
    /\ state_out' = [cash_usd |-> paper_cash, equity_usd |-> equity, positions |-> paper_positions,
                     rows |-> mtm_rows, written |-> TRUE]
    /\ equity' = 0
    /\ mtm_rows' = <<>>
    /\ UNCHANGED OtherAux

NextEquity == EqSettle \/ EqValue \/ MarkCrash \/ EqSave

SpecEquity == InitEquity /\ [][NextEquity]_vars

(* ---------------------------------------------------------------------- *)
(* apply_fill called from two threads at once: the statements of one call  *)
(* are steps, and the calls interleave as far as self._lock allows.        *)
(* ---------------------------------------------------------------------- *)
\* a store without a lock
Unlocked(h) == TRUE

\* threading.Lock: "with self._lock" enters only when no thread holds it
LockFree(h) == h = "none"

NonStore == <<tick_vars, cache_vars, pool_vars, loop_vars, pair_vars, gate_vars, fail_vars, eq_vars,
             calc_vars>>

\* the call validates its fill and computes delta; an invalid fill returns at once
CallApply(w) ==
    /\ thr[w].pc = "idle"
    /\ \E trade_id \in ConcTradeIds, token_id \in Tokens, side \in Sides, size \in FillSizes :
          /\ size > 0 /\ Delta(side, size) # 0
          /\ thr' = [thr EXCEPT ![w] = [pc |-> "acquire", trade_id |-> trade_id, token_id |-> token_id,
                                         delta |-> Delta(side, size), net_read |-> 0]]
    /\ UNCHANGED <<holder, applied, store_vars, NonStore>>

\* with self._lock:
Acquire(w) ==
    /\ thr[w].pc = "acquire"
    /\ LockFree(holder)
    /\ holder' = w
    /\ thr' = [thr EXCEPT ![w].pc = "check"]
    /\ UNCHANGED <<applied, store_vars, NonStore>>

\* if trade_id in self._seen_trade_ids: return False
CheckSeen(w) ==
    /\ thr[w].pc = "check"
    /\ IF AlreadySeen(thr[w].trade_id, seen_trade_ids)
       THEN holder' = "none" /\ thr' = [thr EXCEPT ![w] = NoCall]
       ELSE holder' = holder /\ thr' = [thr EXCEPT ![w].pc = "add"]
    /\ UNCHANGED <<applied, store_vars, NonStore>>

\* self._seen_trade_ids.add(trade_id)
AddSeen(w) ==
    /\ thr[w].pc = "add"
    /\ seen_trade_ids' = seen_trade_ids \cup {thr[w].trade_id}
    /\ applied' = [applied EXCEPT ![thr[w].trade_id] = [tok |-> thr[w].token_id, delta |-> thr[w].delta]]
    /\ thr' = [thr EXCEPT ![w].pc = "read"]
    /\ UNCHANGED <<holder, net_shares_by_token, fills_total, NonStore>>

\* self._net_shares_by_token.get(token_id, 0.0)
ReadNet(w) ==
    /\ thr[w].pc = "read"
    /\ thr' = [thr EXCEPT ![w].pc = "write", ![w].net_read = net_shares_by_token[thr[w].token_id]]
    /\ UNCHANGED <<holder, applied, store_vars, NonStore>>

\* self._net_shares_by_token[token_id] = ... + delta; self._fills_total += 1; the lock is released
WriteNet(w) ==
    /\ thr[w].pc = "write"
    /\ net_shares_by_token' = [net_shares_by_token EXCEPT ![thr[w].token_id] = thr[w].net_read + thr[w].delta]
    /\ fills_total' = fills_total + 1
    /\ holder' = "none"
    /\ thr' = [thr EXCEPT ![w] = NoCall]
    /\ UNCHANGED <<applied, seen_trade_ids, NonStore>>

NextConc ==
    \E w \in Threads :
        CallApply(w) \/ Acquire(w) \/ CheckSeen(w) \/ AddSeen(w) \/ ReadNet(w) \/ WriteNet(w)

SpecConc == Init /\ [][NextConc]_vars

(* ---------------------------------------------------------------------- *)
(* The estimators on a stored history.  The histories are price lists over *)
(* two price levels: short ones with independent series, and long ones in  *)
(* which the PM series replays the spot series some samples late.          *)
(* ---------------------------------------------------------------------- *)
Levels == {1, 2}
ShortLen == 6
LongLen == 10
Delays == {0, 3}
TickStep == 5                  \* seconds between two samples

Stamped(prices, step) == [i \in 1 .. Len(prices) |-> <<i * step, prices[i]>>]

\* the series that repeats xs d samples late (flat until then)
Replay(xs, d) == [i \in 1 .. Len(xs) |-> IF i <= d THEN xs[1] ELSE xs[i - d]]

SeriesOf(len) == {x \in [1 .. len -> Levels] : x[1] = 1}

ShortHists ==
    {[known |-> TRUE, spot |-> Stamped(s, TickStep), pm |-> Stamped(p, TickStep)] :
        s \in SeriesOf(ShortLen), p \in SeriesOf(ShortLen)}

\* samples that all carry the same timestamp
SameTimeHists ==
    {[known |-> TRUE, spot |-> Stamped(s, 0), pm |-> Stamped(s, 0)] : s \in SeriesOf(ShortLen)}

LongHists ==
    {[known |-> TRUE, spot |-> Stamped(s, TickStep), pm |-> Stamped(Replay(s, d), TickStep)] :
        s \in SeriesOf(LongLen), d \in Delays}

\* keyword arguments: the agent's min_points = 6 with one lag or several, a
\* min_points above the short histories, and the default min_corr_points = 10
LagArgs ==
    {[max_lag_points |-> a[1], min_points |-> a[2], min_corr_points |-> a[3],
      min_abs_corr |-> 200, min_corr_gap |-> 50] :
        a \in {<<0, 6, 5>>, <<3, 6, 5>>, <<3, 10, 5>>, <<3, 6, 10>>}}

NoiseArgs == [window_points : {8}, min_points : {5, 10}]

\* every variable outside the estimators at rest
NonCalc == <<tick_vars, store_vars, cache_vars, pool_vars, loop_vars, pair_vars, gate_vars, fail_vars,
             eq_vars, conc_vars>>

CalcStartIn(mode) ==
    /\ cfg = [strategy_mode |-> mode, deadline |-> "off", order_size |-> OrderSize, max_frac_cash |-> 1]
    /\ now = 0
    /\ killswitch = FALSE
    /\ portfolio = FreshState
    /\ closed = {}
    /\ deadline_cache = [last_run |-> 0, pairs |-> FALSE, last_trade |-> -1, last_key |-> FALSE]
    /\ pc = "idle"
    /\ mkts = <<>>
    /\ idx = 1
    /\ paper_cash = 0
    /\ paper_realized = 0
    /\ paper_positions = <<>>
    /\ signals_emitted = 0
    /\ p_bound = FALSE
    /\ meta_lookups_used = 0
    /\ settled = {}
    /\ mark_items = <<>>
    /\ ev = NoEv
    /\ seen_trade_ids = {}
    /\ net_shares_by_token = [t \in Tokens |-> 0]
    /\ fills_total = 0
    /\ CacheInit /\ PoolInit /\ LoopInit
    /\ PairInit /\ GateInit /\ FailInit /\ EqInit /\ ConcInit

CalcStart == CalcStartIn("lead_lag")

InitLag ==
    /\ CalcStart
    /\ PureInit
    /\ hist \in {NoHist} \cup ShortHists \cup SameTimeHists \cup LongHists
    /\ lookback_points = 1
    /\ est = [q |-> NoArgs, r |-> NoEst]
    /\ noise = [q |-> NoNoiseArgs, r |-> NoValue]
    /\ trend_pm = <<>>
    /\ trader = NoTrader
    /\ snap = NoSnap

EstimateLag ==
    /\ \E q \in LagArgs : est' = [q |-> q, r |-> EstimateMarketLag(hist, q)]
    /\ UNCHANGED <<hist, lookback_points, noise, trend_pm, trader, snap, pure_vars, NonCalc>>

EstimateNoise ==
    /\ \E q \in NoiseArgs : noise' = [q |-> q, r |-> EstimateSpotNoise(hist, q)]
    /\ UNCHANGED <<hist, lookback_points, est, trend_pm, trader, snap, pure_vars, NonCalc>>

NextLag == EstimateLag \/ EstimateNoise

SpecLag == InitLag /\ [][NextLag]_vars

(* ---------------------------------------------------------------------- *)
(* The histories as they grow: the agent updates the lead-lag history or   *)
(* the trend history of a key once per tick, according to STRATEGY_MODE;   *)
(* the edge bot feeds every tick of its run to EdgeTrader.on_tick.  The    *)
(* prices stay at one level, the timestamps count the samples.             *)
(* ---------------------------------------------------------------------- *)
MaxAdds == 53
Lookbacks == {2, 17}           \* max(lookback * 3, 50) is 50 and 51
FlatPrice == 1
TraderMoveMin == 1             \* spot_move_min_pct, in return units
TraderEdgeMin == 1             \* edge_min_pct
TraderEdgeExit == 0            \* edge_exit_pct
TraderMaxHold == 2             \* max_hold_secs

NextTs(xs) == IF xs = <<>> THEN 1 ELSE xs[Len(xs)][1] + 1

InitHist ==
    /\ \E mode \in {"lead_lag", "pm_trend"} : CalcStartIn(mode)
    /\ PureInit
    /\ hist = NoHist
    /\ lookback_points \in Lookbacks
    /\ est = [q |-> NoArgs, r |-> NoEst]
    /\ noise = [q |-> NoNoiseArgs, r |-> NoValue]
    /\ trend_pm = <<>>
    /\ trader = NoTrader
    /\ snap = NoSnap

\* lead_lag_engine.update_and_compute(key, ts, spot_price, pm_mid_price, lookback_points)
UpdateLeadLag ==
    /\ cfg.strategy_mode = "lead_lag"
    /\ NextTs(hist.spot) <= MaxAdds
    /\ LET pt == <<NextTs(hist.spot), FlatPrice>>
           spot == HistAppend(hist.spot, pt, HistMaxLen(lookback_points))
           pm == HistAppend(hist.pm, pt, HistMaxLen(lookback_points))
       IN  /\ hist' = [known |-> TRUE, spot |-> spot, pm |-> pm]
           /\ snap' = LeadLagSnap(spot, pm, lookback_points)
    /\ UNCHANGED <<lookback_points, est, noise, trend_pm, trader, pure_vars, NonCalc>>

\* pm_trend_engine.update_and_compute(key, ts, pm_mid_price, lookback_points)
UpdateTrend ==
    /\ cfg.strategy_mode = "pm_trend"
    /\ NextTs(trend_pm) <= MaxAdds
    /\ LET pm == HistAppend(trend_pm, <<NextTs(trend_pm), FlatPrice>>, HistMaxLen(lookback_points))
       IN  /\ trend_pm' = pm
           /\ snap' = TrendSnap(pm, lookback_points)
    /\ UNCHANGED <<hist, lookback_points, est, noise, trader, pure_vars, NonCalc>>

\* EdgeTrader.on_tick(ts, spot_price, pm_price), side YES, no price band, no stop
TraderOnTick ==
    /\ NextTs(trader.spot_hist) <= MaxAdds
    /\ LET ts == NextTs(trader.spot_hist)
           spot == Append(trader.spot_hist, <<ts, FlatPrice>>)
           pm == Append(trader.pm_hist, <<ts, FlatPrice>>)
           s == TraderSnap(spot, pm, lookback_points)
           enter == s.spot_ret_pct >= TraderMoveMin /\ s.edge_pct >= TraderEdgeMin
           exit == ts - trader.position >= TraderMaxHold \/ s.edge_pct <= TraderEdgeExit
       IN  /\ trader' = [spot_hist |-> spot, pm_hist |-> pm,
                         position |-> IF s.none THEN trader.position
                                      ELSE IF trader.position = NoValue
                                      THEN (IF enter THEN ts ELSE NoValue)
                                      ELSE (IF exit THEN NoValue ELSE trader.position),
                         trades |-> IF ~s.none /\ trader.position # NoValue /\ exit
                                    THEN trader.trades + 1 ELSE trader.trades]
           /\ snap' = s
    /\ UNCHANGED <<hist, lookback_points, est, noise, trend_pm, pure_vars, NonCalc>>

NextHist == UpdateLeadLag \/ UpdateTrend \/ TraderOnTick

SpecHist == InitHist /\ [][NextHist]_vars

(* ---------------------------------------------------------------------- *)
(* The trend variant's side selection and its entry gate.                  *)
(* ---------------------------------------------------------------------- *)
\* the returns of this tick: pm_trend_engine.update_and_compute(...).pm_ret_pct
\* per token, None for a token without book or without enough history
TickReturns == [SideTokens -> RetValues \cup {NoValue}]

InitSide ==
    /\ CalcStartIn("pm_trend")
    /\ EstInit
    /\ side_pc = "start"
    /\ pm_trend_auto_side \in BOOLEAN
    /\ held_tok \in {""} \cup SideTokens
    /\ pm_trend_ret_by_token = EmptyDict
    /\ best_token_by_group = EmptyDict
    /\ group_has_open_pos = {}
    /\ auto_side_reason = [t \in SideTokens |-> ""]
    /\ enter_ok = [t \in SideTokens |-> FALSE]
    /\ SizeInit
    /\ RnInit

\* the pre-pass: open groups, one return per token, the best token per group
TrendPrepass ==
    /\ side_pc = "start"
    /\ cfg.strategy_mode = "pm_trend"
    /\ \E rets \in TickReturns :
          /\ pm_trend_ret_by_token' = rets
          /\ best_token_by_group' = PickBest(Ctxs, rets, EmptyDict)
    /\ group_has_open_pos' = OpenGroups(Ctxs, held_tok)
    /\ side_pc' = "gate"
    /\ UNCHANGED <<pm_trend_auto_side, held_tok, auto_side_reason, enter_ok, size_vars, rn_vars>>
    /\ UNCHANGED <<hist, lookback_points, est, noise, trend_pm, trader, snap, NonCalc>>

\* "for ctx in ctxs": the gate of every ctx whose signal asks for an entry
EntryGates ==
    /\ side_pc = "gate"
    /\ auto_side_reason' = [t \in SideTokens |->
          IF \E i \in 1 .. Len(Ctxs) : Ctxs[i].token_id = t
          THEN AutoSideGate(Ctxs[CHOOSE i \in 1 .. Len(Ctxs) : Ctxs[i].token_id = t], held_tok = t)
          ELSE ""]
    /\ enter_ok' = [t \in SideTokens |->
          /\ \E i \in 1 .. Len(Ctxs) : Ctxs[i].token_id = t
          /\ auto_side_reason'[t] = ""]
    /\ side_pc' = "done"
    /\ UNCHANGED <<pm_trend_auto_side, held_tok, pm_trend_ret_by_token, best_token_by_group,
                   group_has_open_pos, size_vars, rn_vars>>
    /\ UNCHANGED <<hist, lookback_points, est, noise, trend_pm, trader, snap, NonCalc>>

NextSide == TrendPrepass \/ EntryGates

SpecSide == InitSide /\ [][NextSide]_vars

(* ---------------------------------------------------------------------- *)
(* One sizing call on a book as the order-book endpoint delivered it.      *)
(* ---------------------------------------------------------------------- *)
MaxLevels == 2
LevelPrices == {50, 51, 53}
LevelSizes == {100, 200}
BookLevel == [price : LevelPrices, size : LevelSizes]

\* the levels of one side in the order of the response; the code neither
\* sorts them nor checks their order
BookSides == UNION {[1 .. n -> BookLevel] : n \in 0 .. MaxLevels}

SlippageCaps == {1, 2}         \* slippage_cap, cents (the default is 0.01)
MaxFractions == {1}            \* max_fraction_of_band_liquidity, tenths (the default is 0.10)
HardCaps == {10000, 1000000}   \* hard_cap_usdc: 10 and 1000 USD
MinOrderSizes == {NoValue, 5, 40}
OrderSizes == {0, 20}          \* PM_ORDER_SIZE_SHARES

SizerArgs == [side : {"BUY", "SELL"}, levels : BookSides, min_order_size : MinOrderSizes,
              slippage_cap : SlippageCaps, max_fraction : MaxFractions, hard_cap : HardCaps]

AgentArgs == [asks : BookSides \ {<<>>}, order_size_shares : OrderSizes,
              slippage_cap : SlippageCaps, max_fraction : MaxFractions, hard_cap : HardCaps]

InitSize == CalcStart /\ EstInit /\ SideInit /\ SizeInit /\ RnInit

\* sizer.size_max_trade(token_id, side, ...)
CallSizer ==
    /\ size_pc = "idle"
    /\ \E q \in SizerArgs :
          /\ sizer_q' = q
          /\ sizer_r' = SizeMaxTrade(q.side, q.levels, q.min_order_size, q.slippage_cap,
                                     q.max_fraction, q.hard_cap)
    /\ size_pc' = "sizer"
    /\ UNCHANGED <<agent_q, agent_r, side_vars, rn_vars>>
    /\ UNCHANGED <<hist, lookback_points, est, noise, trend_pm, trader, snap, NonCalc>>

\* the sizing block of one ctx in the lead-lag iteration of write_outputs
SizeEntry ==
    /\ size_pc = "idle"
    /\ \E q \in AgentArgs :
          /\ agent_q' = q
          /\ agent_r' = AgentSizing(q.asks, q.order_size_shares, q.slippage_cap, q.max_fraction,
                                    q.hard_cap)
    /\ size_pc' = "agent"
    /\ UNCHANGED <<sizer_q, sizer_r, side_vars, rn_vars>>
    /\ UNCHANGED <<hist, lookback_points, est, noise, trend_pm, trader, snap, NonCalc>>

NextSize == CallSizer \/ SizeEntry

SpecSize == InitSize /\ [][NextSize]_vars

(* ---------------------------------------------------------------------- *)
(* One call of the risk-neutral probability, direct or through the model.  *)
(* ---------------------------------------------------------------------- *)
Forwards == {-1, 0, 90, 110}
Strikes == {-1, 0, 100}
Sigmas == {-50, 0, 55}
Years == {-1, 0, TinyYears, 500000}

RnModels == [strike : {NoValue, 0, 100}, direction : {"above", "below", "touch"},
             expiry : {10}, now : {5, 10, 15},
             underlying_price : {NoValue, 110}, underlying_index : {NoValue, 0},
             index_price : {NoValue, 90}, mark_iv : {NoValue, -50, 0, 55, 5520}]

InitRn == CalcStart /\ EstInit /\ SideInit /\ SizeInit /\ RnInit

\* risk_neutral_prob_above_strike(forward=..., strike=..., sigma=..., t_years=...)
CallProb ==
    /\ rn_pc = "idle"
    /\ \E f \in Forwards, k \in Strikes, s \in Sigmas, t \in Years : \E d \in D2Signs(f, k) :
          /\ rn_q' = RnArgsOf(f, k, s, t)
          /\ rn_r' = RiskNeutralProbAboveStrike(f, k, s, t, d)
    /\ rn_pc' = "prob"
    /\ UNCHANGED <<model_q, model_r, side_vars, size_vars>>
    /\ UNCHANGED <<hist, lookback_points, est, noise, trend_pm, trader, snap, NonCalc>>

\* deribit.compute_rn_probability_from_model(model=fair_model)
CallModel ==
    /\ rn_pc = "idle"
    /\ \E q \in RnModels : LET a == PassedOn(q) IN \E d \in D2Signs(a.forward, a.strike) :
          /\ model_q' = q
          /\ model_r' = ComputeRnProbabilityFromModel(q, d)
          /\ rn_q' = a
          /\ rn_r' = IF a.called
                     THEN RiskNeutralProbAboveStrike(a.forward, a.strike, a.sigma, a.t_years, d)
                     ELSE rn_r
    /\ rn_pc' = "model"
    /\ UNCHANGED <<side_vars, size_vars>>
    /\ UNCHANGED <<hist, lookback_points, est, noise, trend_pm, trader, snap, NonCalc>>

NextRn == CallProb \/ CallModel

SpecRn == InitRn /\ [][NextRn]_vars


(* ====================================================================== *)
(* Properties                                                              *)
(* ====================================================================== *)
IsBuy(e) == e.kind \in {"enter", "scale", "fair_buy", "ladder"}

TradingStep == pc \in {"ll", "ladder", "fair"}

TickEnds == pc = "mark" /\ pc' = "idle"

Held(t) == InPos(portfolio.positions, t)

MarketResolved(t) == EndPassed(t, now) \/ t \in closed

FracAdd(a, b) == Frac(a[1] * b[2] + b[1] * a[2], a[2] * b[2])

Basis(ps, t) ==
    IF Has(ps, t) THEN Frac(Get(ps, t).shares * Get(ps, t).avg_entry[1], Get(ps, t).avg_entry[2])
    ELSE <<0, 1>>

SumBasis(ps, S) ==
    FracAdd(IF 1 \in S THEN Basis(ps, 1) ELSE <<0, 1>>, IF 2 \in S THEN Basis(ps, 2) ELSE <<0, 1>>)

Grown == {t \in Tokens : SharesOf(paper_positions', t) > SharesOf(paper_positions, t)}

(* C1 (as amended): the cash of the paper ledger, in the running tick and  *)
(* in the portfolio file, never goes below minus the 1e-9 tolerance of the *)
(* insufficient-cash tests.                                                *)
C1_CashWithinTolerance ==
    /\ paper_cash >= 0 - CashEps
    /\ portfolio.cash_usd >= 0 - CashEps

\* a filled BUY has taken the cash below zero
C1_Witness == paper_cash < 0 /\ IsBuy(ev) /\ ev.status = "filled"

(* C1 (as stated): the cash never goes below zero.                         *)
C1_CashNeverNegative ==
    /\ paper_cash >= 0
    /\ portfolio.cash_usd >= 0

(* C2: a BUY is filled only if its size is positive (the shares of the    *)
(* token grow) and its notional does not exceed the cash (the cash stays   *)
(* at or above zero, read here up to the 1e-9 tolerance of C1), and a      *)
(* rejected BUY leaves cash, realized P&L and positions as they were.      *)
C2_BadBuyRejectedUnchanged ==
    [][ (TradingStep /\ IsBuy(ev')) =>
          /\ ev'.status = "filled" =>
                /\ paper_cash' >= 0 - CashEps
                /\ SharesOf(paper_positions', ev'.tok) > SharesOf(paper_positions, ev'.tok)
          /\ ev'.status = "rejected" =>
                UNCHANGED <<paper_cash, paper_realized, paper_positions>> ]_vars

(* C3: a BUY that is not a scale-in (an entry of the lead-lag / pm_trend   *)
(* loop, a ladder leg, a BUY of the fair-model loop) is filled only while  *)
(* the ledger holds no shares of the token.                                *)
C3_EntryOnlyWhenFlat ==
    [][ (TradingStep /\ ev'.kind \in {"enter", "ladder", "fair_buy"} /\ ev'.status = "filled")
            => ~InPos(paper_positions, ev'.tok) ]_vars

(* C4: whenever the loop has processed a token with fresh price and edge   *)
(* while an exit condition of its open position held, it has closed the    *)
(* position.                                                               *)
C4_ExitWhenDue == ev.exit_due => ev.kind = "exit"

(* C5: in a tick that runs with the kill-switch file present no BUY is     *)
(* filled.                                                                 *)
C5_KillSwitchBlocksBuys == ~(killswitch /\ IsBuy(ev) /\ ev.status = "filled")

(* C6: the tick ends by writing its ledger to the portfolio file and the   *)
(* next tick starts from exactly what the file holds, so that a position   *)
(* bought in a tick and the cash paid for it are carried over.             *)
C6_LedgerCarriedOver ==
    [][ /\ TickEnds =>
             portfolio' = [cash_usd |-> paper_cash, realized_pnl_usd |-> paper_realized,
                           positions |-> paper_positions]
        /\ (pc = "idle" /\ pc' # "idle") =>
             /\ paper_cash' = portfolio.cash_usd
             /\ paper_positions' = portfolio.positions ]_vars

(* C7: a position that the mark pass has found resolved (its market meta  *)
(* obtained, end_date + grace <= now or closed = true) is settled in that  *)
(* pass: when the pass ends the ledger the tick leaves behind no longer    *)
(* holds it.                                                               *)
C7_ResolvedSettledInPass ==
    [][ TickEnds => \A t \in settled : ~InPos(portfolio'.positions, t) ]_vars

(* C8: a position whose market has ended (plus grace) or is closed is      *)
(* eventually removed from the ledger, at the latest when the mark passes  *)
(* keep finding it resolved (meta obtained) again and again.               *)
C8_ResolvedEventuallyRemoved ==
    \A t \in Tokens :
        []<>(t \in settled) => [](Held(t) /\ MarketResolved(t) => <>(~Held(t)))

(* C9: no share count is ever negative: neither the shares of a paper      *)
(* position nor the net shares of a token in the position store.           *)
C9_SharesNeverNegative ==
    /\ \A k \in 1 .. Len(paper_positions) : paper_positions[k].shares >= 0
    /\ \A k \in 1 .. Len(portfolio.positions) : portfolio.positions[k].shares >= 0
    /\ \A t \in Tokens : net_shares_by_token[t] >= 0

(* C10: the avg_entry of a position changes only in a step that fills a    *)
(* BUY of its token, and a filled BUY makes new_shares * new_avg equal to  *)
(* old_shares * old_avg + bought * fill_price (the cash it paid).          *)
C10_AvgEntryOnlyOnBuy ==
    [][ /\ \A t \in Tokens :
              (Has(paper_positions, t) /\ Has(paper_positions', t)
                 /\ Get(paper_positions', t).avg_entry # Get(paper_positions, t).avg_entry)
              => (t \in Grown /\ IsBuy(ev') /\ ev'.status \in {"filled", "partial"})
        /\ (TradingStep /\ Grown # {}) =>
              SumBasis(paper_positions', Grown)
                 = FracAdd(SumBasis(paper_positions, Grown), <<paper_cash - paper_cash', 1>>) ]_vars

\* a BUY has been filled into a position whose average lies between two fill prices
C10_Witness ==
    /\ IsBuy(ev) /\ ev.status = "filled"
    /\ Has(paper_positions, ev.tok)
    /\ Get(paper_positions, ev.tok).avg_entry[2] > 1

(* C11: an exit sells all shares of the position at the best bid: the     *)
(* cash grows by bid * shares, the realized P&L by (bid - avg_entry) *     *)
(* shares, and the position leaves the ledger.                             *)
C11_ExitSellsAllAtBid ==
    [][ (pc = "ll" /\ ev'.kind = "exit") =>
          LET pos == Get(paper_positions, ev'.tok)
              bid == ev'.px
          IN  /\ Has(paper_positions, ev'.tok)
              /\ bid \in Prices
              /\ paper_cash' = paper_cash + bid * pos.shares
              /\ paper_realized' = paper_realized + bid * pos.shares
                                      - (pos.shares * pos.avg_entry[1]) \div pos.avg_entry[2]
              /\ ~Has(paper_positions', ev'.tok) ]_vars

\* an exit below the average entry price has booked a loss
C11_Witness == ev.kind = "exit" /\ ev.status = "filled" /\ paper_realized < 0

(* C12: a fill whose trade_id was already applied changes nothing: the    *)
(* net shares and the applied-fill count change only in a step that adds   *)
(* one new trade_id to the seen ones, so each trade_id counts at most once. *)
C12_ReplayedFillIgnored ==
    [][ /\ seen_trade_ids \subseteq seen_trade_ids'
        /\ Cardinality(seen_trade_ids' \ seen_trade_ids) <= 1
        /\ fills_total' = fills_total + Cardinality(seen_trade_ids' \ seen_trade_ids)
        /\ seen_trade_ids' = seen_trade_ids => net_shares_by_token' = net_shares_by_token
        /\ ev'.status = "duplicate" => UNCHANGED store_vars ]_vars

\* a replayed fill has been turned away after every trade id had been applied
C12_Witness == ev.kind = "fill" /\ ev.status = "duplicate" /\ seen_trade_ids = TradeIds

(* C13: a scale-in is filled only for a position whose mid has risen by   *)
(* the trigger since its last recorded mid, whose last scale-in lies at    *)
(* least the cooldown back, whose adds count is below the maximum, and     *)
(* whose shares after the scale-in do not exceed the position cap.         *)
C13_ScaleInGated ==
    [][ (pc = "ll" /\ ev'.kind = "scale" /\ ev'.status = "filled") =>
          LET pos == Get(paper_positions, ev'.tok)
              after == Get(paper_positions', ev'.tok)
          IN  /\ Has(paper_positions, ev'.tok) /\ pos.shares > 0
              /\ pos.last_mid # 0
              /\ 100 * after.last_mid >= (100 + ScaleOnOddsChangePct) * pos.last_mid
              /\ pos.last_scale_at = -1 \/ now - pos.last_scale_at >= ScaleCooldownS
              /\ pos.adds < ScaleMaxAdds
              /\ after.shares <= ScaleMaxTotalShares ]_vars

\* BUY orders executed by the step that left event e
BuysOf(e) ==
    IF e.status # "filled" THEN 0
    ELSE IF e.kind \in {"enter", "scale", "fair_buy"} THEN 1
    ELSE IF e.kind = "ladder" THEN 2
    ELSE 0

(* C14: the BUY orders executed in one tick by two consecutive steps of it *)
(* (the market loop and the deadline ladder, or the ladder and the         *)
(* fair-model loop) never number more than pm_max_orders_per_tick.         *)
C14_BuysPerTickThrottled ==
    [][ (pc = "ladder" \/ pc = "fair") => BuysOf(ev) + BuysOf(ev') <= MaxOrdersPerTick ]_vars

SharedState ==
    <<gamma_market_by_slug, gamma_market_fetched_at_ms, paper_cash, paper_realized,
      paper_positions, history>>

(* C16: every step that changes a cache, the paper ledger or a rolling     *)
(* history is a step of the orchestrating thread; a step of a worker-pool  *)
(* task leaves all of them as they were, whatever the order in which the   *)
(* tasks complete.                                                         *)
C16_OnlyMainWritesShared ==
    [][ SharedState' # SharedState => actor' = "main" ]_vars

\* a result applied to the cache while another task of the same stage is still out
C16_Witness ==
    /\ pool_pc = "gamma" /\ par /\ actor = "main"
    /\ \E r \in joined : gamma_market_fetched_at_ms[r] = now_ms
    /\ \E r \in Refs : futs.g[r] = "pending"

(* C17: the decision loop runs, and a tick ends, only when no fetch task   *)
(* of the tick is still pending; the order-book stage is dispatched only   *)
(* when every Gamma task has completed; and a tick begins only when the    *)
(* previous one has ended with no task left.                               *)
C17_TicksNeverOverlap ==
    [][ /\ (pool_pc = "ob" /\ pool_pc' = "idle") => NoPending(futs.g) /\ NoPending(futs.ob)
        /\ (pool_pc = "gamma" /\ pool_pc' = "ob") => NoPending(futs.g)
        /\ (pool_pc = "idle" /\ pool_pc' = "gamma") => NoPending(futs.g) /\ NoPending(futs.ob)
        /\ (pool_pc # "idle" /\ pool_pc' # "idle") => now_ms' = now_ms ]_vars

\* a later tick running its parallel book fetches after an earlier tick has decided
C17_Witness ==
    /\ pool_pc = "ob" /\ par
    /\ \E t \in Tokens : history[t] > 0
    /\ \E t \in Tokens : futs.ob[t] = "ok" /\ t \notin joined
    /\ \E t \in Tokens : futs.ob[t] = "pending"

(* The fetch stages: a failed Gamma fetch keeps only its own market from   *)
(* the order-book stage, a failed order-book fetch keeps only its own      *)
(* token from the decision loop: every market whose fetches succeeded is   *)
(* decided on, and the stage ends.                                         *)
StageFailureIsolated ==
    [][ /\ (pool_pc = "gamma" /\ pool_pc' = "ob") =>
              \A r \in Refs : futs.g[r] = "ok" => futs'.ob[r] = "pending"
        /\ (pool_pc = "ob" /\ pool_pc' # "ob") =>
              /\ pool_pc' = "idle"
              /\ processed' = {t \in Tokens : futs.ob[t] = "ok"}
              /\ \A t \in Tokens : futs.ob[t] = "err" => orderbook_by_token[t] = "none" ]_vars

(* C20: when the order book of one position cannot be fetched in the mark  *)
(* pass, only that position goes without a price: the pass goes on with    *)
(* the positions that are left.                                            *)
C20_FetchFailureIsolated ==
    [][ (pc = "mark" /\ Len(mark_items) > 1 /\ ev'.status = "no_book") =>
          pc' = "mark" /\ mark_items' = Tail(mark_items) ]_vars

(* C18: after k >= 1 consecutive failed ticks the sleep is the base        *)
(* interval times 2^k for k up to 4 and times 2^4 for every larger k,      *)
(* cut off at 300 seconds: it never exceeds 300 seconds, and it does not   *)
(* grow beyond 16 times the base interval even when that is below 300.     *)
C18_BackoffDoublesToCap ==
    [][ (loop_pc = "tick" /\ loop_pc' = "sleep" /\ consecutive_failures' >= 1) =>
          LET k == consecutive_failures'
          IN  /\ sleep_s' <= MaxSleepS
              /\ sleep_s' <= interval_s * 2 ^ BackoffMaxExp
              /\ (k <= BackoffMaxExp /\ interval_s * 2 ^ k <= MaxSleepS) => sleep_s' = interval_s * 2 ^ k
              /\ (k <= BackoffMaxExp /\ interval_s * 2 ^ k > MaxSleepS) => sleep_s' = MaxSleepS
              /\ (k > BackoffMaxExp /\ consecutive_failures >= BackoffMaxExp) => sleep_s' = sleep_s ]_vars

\* five failures in a row at the default interval: the sleep stands at 240 seconds
C18_Witness ==
    /\ loop_pc = "sleep" /\ consecutive_failures > BackoffMaxExp
    /\ sleep_s = interval_s * 2 ^ BackoffMaxExp /\ sleep_s < MaxSleepS

(* C18 as stated: after k >= 1 consecutive failed ticks the sleep is the   *)
(* base interval times 2^k until that reaches the maximum sleep, and the   *)
(* maximum from then on.                                                   *)
C18_BackoffGrowsToMax ==
    [][ (loop_pc = "tick" /\ loop_pc' = "sleep" /\ consecutive_failures' >= 1) =>
          sleep_s' = Min(interval_s * 2 ^ consecutive_failures', MaxSleepS) ]_vars

(* C19: the loop ends only on RUN_ONCE or when RUN_TICKS ticks have run;   *)
(* after a failed tick without such a limit it sleeps, and every sleep is  *)
(* followed by the start of another tick.                                  *)
C19_FailureNeverTerminates ==
    /\ [][ (loop_pc = "tick" /\ loop_pc' # "tick") =>
              /\ loop_pc' \in {"sleep", "exited"}
              /\ loop_pc' = "exited" <=> (run_once \/ (run_ticks > 0 /\ tick_count' >= run_ticks)) ]_vars
    /\ [](loop_pc = "sleep" => <>(loop_pc = "tick"))

\* a tick about to start after the ticks before it have failed many times over
C19_Witness ==
    /\ loop_pc = "tick" /\ consecutive_failures > BackoffMaxExp
    /\ consecutive_failures = tick_count /\ ~run_once /\ run_ticks = 0


(* C21: every pair of the ladder list joins two markets of the same,       *)
(* non-empty base key, the early one ending strictly before the late one;  *)
(* the list never holds a pair whose early end date is at or after the     *)
(* late one.                                                               *)
C21_PairsOrderedSameBase ==
    \A i \in 1 .. Len(ladder_pairs) :
        LET pr == ladder_pairs[i]
        IN  /\ pr.early.end_dt < pr.late.end_dt
            /\ pr.early.base = pr.late.base
            /\ pr.base = pr.early.base
            /\ pr.base # 0
            /\ pr.early.end_dt # 0
            /\ pr.early.slug # pr.late.slug

\* a scan that met two markets of one base with the same end date next to a
\* later one: the equal pair was dropped and the ordered one kept
C21_Witness ==
    /\ Len(ladder_pairs) > 0
    /\ \E i, j \in 1 .. Len(index_items) :
          /\ i # j
          /\ Groupable(index_items[i])
          /\ index_items[i].base = index_items[j].base
          /\ index_items[i].end_dt = index_items[j].end_dt
          /\ index_items[i].base = ladder_pairs[1].base


\* the fill prices of the two legs of the ladder trade the step executed
LegPrice(t) == Get(paper_positions', t).avg_entry

LadderTraded == pc = "ladder" /\ ev'.kind = "ladder" /\ ev'.status = "filled"

(* C22: a ladder trade is executed only when the guaranteed profit of the  *)
(* pair, 1 minus the two asks paid, is strictly greater than the           *)
(* configured minimum.                                                     *)
C22_TradeOnlyAboveMinProfit ==
    [][ LadderTraded =>
          (One - DeadlineMinProfit) * LegPrice(EarlyNo)[2] * LegPrice(LateYes)[2]
              > LegPrice(EarlyNo)[1] * LegPrice(LateYes)[2] + LegPrice(LateYes)[1] * LegPrice(EarlyNo)[2] ]_vars

LadderBought(t) == pc = "ladder" /\ SharesOf(paper_positions', t) > SharesOf(paper_positions, t)

(* C23: the ladder buys a leg only in a step that started with no shares   *)
(* of the early No token and none of the late Yes token in the ledger.     *)
C23_TradeOnlyWhenLegsFlat ==
    [][ (LadderBought(EarlyNo) \/ LadderBought(LateYes)) =>
          SharesOf(paper_positions, EarlyNo) = 0 /\ SharesOf(paper_positions, LateYes) = 0 ]_vars

\* a ladder trade has filled both legs in a tick that held neither before
C23_Witness ==
    /\ ev.kind = "ladder" /\ ev.status = "filled"
    /\ SharesOf(paper_positions, EarlyNo) > 0 /\ SharesOf(paper_positions, LateYes) > 0
    /\ SharesOf(portfolio.positions, EarlyNo) = 0 /\ SharesOf(portfolio.positions, LateYes) = 0

(* C24 (as amended): two successive ladder trades are at least the         *)
(* cooldown apart and are never trades of the same pair key.               *)
C24_CooldownAndKeyDedup ==
    \A i \in 1 .. Len(trade_log) - 1 :
        /\ trade_log[i + 1].at - trade_log[i].at >= DeadlineCooldownS
        /\ trade_log[i + 1].key # trade_log[i].key

\* two trades exactly one cooldown apart
C24_Witness ==
    /\ Len(trade_log) >= 2
    /\ trade_log[2].at - trade_log[1].at = DeadlineCooldownS

(* C24 (as stated): a pair that has been traded is not traded again on a   *)
(* later tick.                                                             *)
C24_PairNeverTradedAgain ==
    \A i, j \in 1 .. Len(trade_log) : i # j => trade_log[i].key # trade_log[j].key

LegShares(t) == SharesOf(paper_positions', t)

\* price x shares of a leg of the trade the step executed
LegNotional(t) == (LegPrice(t)[1] * LegShares(t)) \div LegPrice(t)[2]

LadderBudget == Max(0, Min(DeadlineMaxUsd, paper_cash))

(* C25 (as amended): a ladder trade buys the same number of shares of the  *)
(* two legs, each at its ask; what it spends is within the budget cap and  *)
(* no further share of both legs would fit under the cap.                  *)
C25_EqualSharesWithinBudget ==
    [][ LadderTraded =>
          /\ LegShares(EarlyNo) = LegShares(LateYes)
          /\ LegShares(EarlyNo) > 0
          /\ paper_cash - paper_cash' = LegNotional(EarlyNo) + LegNotional(LateYes)
          /\ paper_cash - paper_cash' <= LadderBudget
          /\ LadderBudget - (paper_cash - paper_cash') < LegPrice(EarlyNo)[1] + LegPrice(LateYes)[1] ]_vars

\* a ladder trade whose two legs filled at different prices
C25_Witness ==
    /\ ev.kind = "ladder" /\ ev.status = "filled"
    /\ Has(paper_positions, EarlyNo) /\ Has(paper_positions, LateYes)
    /\ Get(paper_positions, EarlyNo).avg_entry # Get(paper_positions, LateYes).avg_entry
    /\ Get(paper_positions, EarlyNo).shares = Get(paper_positions, LateYes).shares

(* C25 (as stated): the two legs of a ladder trade have the same notional, *)
(* fill price x shares.                                                    *)
C25_EqualNotional ==
    [][ LadderTraded => LegNotional(EarlyNo) = LegNotional(LateYes) ]_vars

(* C26: a tick whose decision pass fails with an error adds one to the     *)
(* consecutive-failure counter, and only a tick that ran through without   *)
(* error sets the counter to zero.                                         *)
C26_DecisionErrorCounted ==
    [][ loop_pc = "tick" =>
          /\ (tick_outcome' = "decision_error" => consecutive_failures' = consecutive_failures + 1)
          /\ (consecutive_failures > 0 /\ consecutive_failures' = 0 => tick_outcome' = "ok") ]_vars

\* the step force-settles the position at the head of the mark pass
Settles == pc = "mark" /\ ev'.kind = "settle"

(* C27: a position of a market the venue reports closed is force-settled   *)
(* at the resolved price of its outcome, 0 or 1 per share, unless the      *)
(* venue was asked for the resolved prices in this step and gave none.     *)
C27_SettledAtResolvedPrice ==
    [][ (Settles /\ ev'.tok \in closed /\ meta_lookups_used' = meta_lookups_used) =>
          \/ paper_cash' - paper_cash = 0
          \/ paper_cash' - paper_cash = One * SharesOf(paper_positions, ev'.tok) ]_vars

RECURSIVE RowsValue(_)
RowsValue(rows) == IF rows = <<>> THEN 0 ELSE rows[1].value + RowsValue(Tail(rows))

(* C28: in the ledger state a tick writes, equity is cash plus the value,  *)
(* shares x mark price, of the positions left open, and every open         *)
(* position has been valued.                                               *)
C28_EquityIsCashPlusValue ==
    state_out.written =>
        /\ state_out.equity_usd = state_out.cash_usd + RowsValue(state_out.rows)
        /\ {state_out.rows[i].tok : i \in 1 .. Len(state_out.rows)}
               = {t \in Tokens : SharesOf(state_out.positions, t) > 0}

\* no call is past the lock
Quiet == \A w \in Threads : thr[w].pc \in {"idle", "acquire"}

AppliedDelta(i, t) == IF i \in seen_trade_ids /\ applied[i].tok = t THEN applied[i].delta ELSE 0

(* C29: whenever no apply_fill call is inside the store, each token's net  *)
(* shares is the sum of the signed sizes of the fills counted for the      *)
(* distinct trade ids seen, each of them counted once, whichever way the   *)
(* calls of the two threads interleaved.                                   *)
C29_NetIsSumOfDistinctFills ==
    Quiet =>
        /\ \A t \in Tokens : net_shares_by_token[t] = AppliedDelta(1, t) + AppliedDelta(2, t)
        /\ fills_total = Cardinality(seen_trade_ids)

\* the reconcile path is about to write the net shares for a trade while the
\* fill stream waits at the lock with the same trade
C29_Witness ==
    /\ thr["main"].pc = "write"
    /\ thr["wss"].pc = "acquire"
    /\ thr["wss"].trade_id = thr["main"].trade_id
    /\ seen_trade_ids = ConcTradeIds

\* start balance + realized P&L = cash + sum of shares x avg_entry
Conserved(cash, realized, ps) ==
    SumBasis(ps, Tokens)[1] = (StartBalance + realized - cash) * SumBasis(ps, Tokens)[2]

(* C30: a tick that starts from a stored ledger in which start balance +   *)
(* realized P&L = cash + cost basis of the open positions starts with      *)
(* exactly the stored cash, a stored cash of 0 included, and so with the   *)
(* same balance.                                                           *)
C30_ConservedAcrossReload ==
    [][ (pc = "idle" /\ pc' # "idle"
           /\ Conserved(portfolio.cash_usd, portfolio.realized_pnl_usd, portfolio.positions)) =>
          /\ paper_cash' = portfolio.cash_usd
          /\ Conserved(paper_cash', paper_realized', paper_positions') ]_vars

(* C31: a ladder trade attempt is all-or-nothing: the step either buys     *)
(* both legs or leaves cash and positions as they were; it never leaves    *)
(* the early leg bought without the late leg.                              *)
C31_AttemptAllOrNothing ==
    [][ pc = "ladder" =>
          \/ LadderBought(EarlyNo) /\ LadderBought(LateYes)
          \/ paper_cash' = paper_cash /\ paper_positions' = paper_positions ]_vars

\* the step handled a SELL of a position that was held, after the tick had
\* already emitted pm_max_orders_per_tick orders
SellAfterMaxOrders ==
    /\ signals_emitted >= MaxOrdersPerTick
    /\ \/ pc = "ll" /\ ev'.exit_due
       \/ pc = "fair" /\ ev'.kind = "fair_sell"
    /\ SharesOf(paper_positions, ev'.tok) > 0

(* C32: a SELL that closes a held position is never blocked by the         *)
(* per-tick order throttle: with pm_max_orders_per_tick already reached,   *)
(* the exit still executes and the position is closed, in every mode.      *)
C32_ExitNeverThrottled ==
    [][ SellAfterMaxOrders =>
          ev'.status = "filled" /\ SharesOf(paper_positions', ev'.tok) = 0 ]_vars

(* C33: when estimate_market_lag succeeds, the reported lag_points is the  *)
(* selected lag in samples, so that lag_ms = lag_points x the median tick  *)
(* spacing; a PM series that replays the spot series 3 samples late at 5 s *)
(* spacing is reported with lag_points 3 and lag_ms 15000.                 *)
C33_LagPointsIsSelectedLag ==
    est.r.ok => est.r.lag_ms = est.r.lag_points * est.r.dt_ms

\* every return of the price list has the same value
ConstantReturns(pts) == \A i, j \in 1 .. (Len(pts) - 1) : ReturnsOf(pts)[i] = ReturnsOf(pts)[j]

NoiseCalled == noise.q # NoNoiseArgs

LagCalled == est.q # NoArgs

(* C34: on a history whose return series is constant, the noise estimate   *)
(* and the lag estimate both report a low-variance / insufficient-data     *)
(* result: no noise figure, and no lag of 0 ms or correlation of +-1.      *)
C34_ConstantSeriesReportedInsufficient ==
    /\ (NoiseCalled /\ hist.known /\ ConstantReturns(hist.spot)) => noise.r = NoValue
    /\ (LagCalled /\ hist.known /\ (ConstantReturns(hist.spot) \/ ConstantReturns(hist.pm))) =>
          ~est.r.ok /\ est.r.lag_ms = NoValue /\ est.r.best_corr = NoValue

\* the scan of the stored history under the arguments of the last call
LagScan ==
    ScanLags(ReturnsOf(hist.spot), ReturnsOf(hist.pm), 0, Max(0, est.q.max_lag_points),
             est.q.min_corr_points, [best_lag |-> NoValue, best_c |-> NegInf, second_c |-> NegInf])

\* the conditions under which the estimate must fail
HistoryTooShort == Min(Len(hist.spot), Len(hist.pm)) < Max(est.q.min_points, 3)
NoSpacing == Len(hist.spot) < 3
NearZeroVariance == StdTiny(ReturnsOf(hist.spot)) \/ StdTiny(ReturnsOf(hist.pm))
NoValidCorr(st) == st.best_lag = NoValue
CorrTooLow(st) == st.best_lag # NoValue /\ Abs(st.best_c) < est.q.min_abs_corr
GapTooLow(st) ==
    /\ st.best_lag # NoValue /\ st.second_c # NegInf
    /\ st.best_c - st.second_c < est.q.min_corr_gap

MustFail ==
    LET st == LagScan
    IN  \/ ~hist.known \/ HistoryTooShort \/ NoSpacing \/ NearZeroVariance
        \/ NoValidCorr(st) \/ CorrTooLow(st) \/ GapTooLow(st)

(* C35: estimate_market_lag returns ok = false with a reason whenever the  *)
(* history is too short, no spacing can be computed, a return series has   *)
(* near-zero variance, no lag has a valid correlation, the best            *)
(* correlation is below min_abs_corr in size, or it leads the second best  *)
(* by less than min_corr_gap; ok = true only when none of these holds.     *)
C35_FailureHasReason ==
    LagCalled =>
        IF MustFail
        THEN ~est.r.ok /\ est.r.reason # "none" /\ est.r.reason # ""
        ELSE est.r.ok => est.r.reason = "none"

C35_Witness ==
    /\ LagCalled /\ ~est.r.ok /\ est.r.reason = "corr_gap_too_low"
    /\ Abs(est.r.best_corr) >= est.q.min_abs_corr

\* new is old with one point appended and, at most, its oldest points dropped
AppendedOne(old, new) ==
    /\ new # <<>>
    /\ new[Len(new)][1] = NextTs(old)
    /\ SubSeq(new, 1, Len(new) - 1) = LastK(old, Len(new) - 1)

\* the list was updated in this step and respects the bound afterwards
KeptBounded(old, new) ==
    new # old => (AppendedOne(old, new) /\ Len(new) <= Max(lookback_points * 3, 50)
                  /\ Len(new) = Min(Len(old) + 1, Max(lookback_points * 3, 50)))

(* C36: after every update each price history holds at most                *)
(* max(lookback x 3, 50) points; an update appends exactly one point per   *)
(* series and, when the bound is exceeded, drops the oldest points.        *)
C36_HistoryBounded ==
    [][ /\ KeptBounded(hist.spot, hist'.spot) /\ KeptBounded(hist.pm, hist'.pm)
        /\ KeptBounded(trend_pm, trend_pm')
        /\ KeptBounded(trader.spot_hist, trader'.spot_hist)
        /\ KeptBounded(trader.pm_hist, trader'.pm_hist) ]_vars

(* C40: for every tick interval the sleep after a failed tick is at least  *)
(* as long as the sleep after a successful tick (the interval itself), and *)
(* the sleep does not decrease while the failures keep adding up.          *)
C40_FailureNeverShortensSleep ==
    [][ (loop_pc = "tick" /\ loop_pc' = "sleep") =>
          /\ sleep_s' >= BackoffSleep(interval_s, 0)
          /\ (consecutive_failures >= 1 /\ consecutive_failures' > consecutive_failures) =>
                sleep_s' >= sleep_s ]_vars

\* the ctxs of group g whose token has a computed return, by position in ctxs
Candidates(g) ==
    {i \in 1 .. Len(Ctxs) : /\ Ctxs[i].auto_side_group = g
                            /\ pm_trend_ret_by_token[Ctxs[i].token_id] # NoValue}

(* C37: with auto-side on, the token selected for a binary market is the   *)
(* one with the highest trailing return among the market's tokens that     *)
(* have a computed return, the first of them when returns tie; a market    *)
(* without any computed return has no selected token.                      *)
C37_BestIsHighestReturn ==
    (side_pc # "start" /\ pm_trend_auto_side) =>
        IF Candidates(GroupKey) = {}
        THEN GroupKey \notin DOMAIN best_token_by_group
        ELSE /\ GroupKey \in DOMAIN best_token_by_group
             /\ \E i \in Candidates(GroupKey) :
                   /\ best_token_by_group[GroupKey] = Ctxs[i].token_id
                   /\ \A j \in Candidates(GroupKey) :
                         LET ri == pm_trend_ret_by_token[Ctxs[i].token_id]
                             rj == pm_trend_ret_by_token[Ctxs[j].token_id]
                         IN  rj < ri \/ (rj = ri /\ i <= j)

\* the best price of a side: the lowest ask for a BUY, the highest bid for a SELL
BestPrice(side, levels) ==
    LET px == {levels[i].price : i \in 1 .. Len(levels)}
    IN  CHOOSE p \in px : \A o \in px : IF side = "BUY" THEN p <= o ELSE p >= o

\* price x size summed over the levels within the slippage band from the best price
BandNotional(side, levels, slippage_cap) ==
    LET best == BestPrice(side, levels)
    IN  SumUsdc(InBand(side, levels, IF side = "BUY" THEN best + slippage_cap
                                     ELSE Max(0, best - slippage_cap)))

\* usd and shares are what the sizing rule gives for this side of the book
SizedByRule(side, levels, slippage_cap, max_fraction, hard_cap, usd, shares) ==
    LET best == BestPrice(side, levels)
        want == Min(hard_cap, BandNotional(side, levels, slippage_cap) * max_fraction)
    IN  /\ usd = want
        /\ IF best <= 0 THEN shares.n = 0 ELSE shares.n * best = want * shares.d

(* C38: for a non-empty side of the book the sizer returns                 *)
(* suggested_usd = min(hard_cap, band_notional x max_fraction), the band   *)
(* notional being price x size summed over the levels within the slippage  *)
(* band from the best price, and suggested_shares = suggested_usd / best   *)
(* (0 if best <= 0); the agent's inline sizing gives the same two numbers. *)
(* Asks (0.50,100),(0.51,200) with cap 0.01, fraction 0.10 and hard cap    *)
(* 1000 give 15.2 USD and 30.4 shares.                                     *)
C38_SizerFollowsRule ==
    /\ (size_pc = "sizer" /\ sizer_q.levels # <<>>) =>
          /\ ~sizer_r.raised
          /\ SizedByRule(sizer_q.side, sizer_q.levels, sizer_q.slippage_cap, sizer_q.max_fraction,
                         sizer_q.hard_cap, sizer_r.suggested_max_usdc, sizer_r.suggested_max_shares)
    /\ size_pc = "agent" =>
          SizedByRule("BUY", agent_q.asks, agent_q.slippage_cap, agent_q.max_fraction,
                      agent_q.hard_cap, agent_r.max_usdc, agent_r.max_shares)
    /\ ( /\ size_pc = "sizer" /\ sizer_q.side = "BUY"
         /\ sizer_q.levels = <<[price |-> 50, size |-> 100], [price |-> 51, size |-> 200]>>
         /\ sizer_q.slippage_cap = 1 /\ sizer_q.max_fraction = 1 /\ sizer_q.hard_cap = 1000000
         /\ sizer_q.min_order_size = NoValue ) =>
          /\ sizer_r.suggested_max_usdc = 15200
          /\ sizer_r.suggested_max_shares = Ratio(15200, 50)

\* one of the four arguments of the last call is zero or negative
BadArgs == rn_q.forward <= 0 \/ rn_q.strike <= 0 \/ rn_q.sigma <= 0 \/ rn_q.t_years <= 0

(* C39: a call of ProbAboveStrike with forward, strike, sigma or t_years   *)
(* at or below zero raises an invalid-input error and yields no            *)
(* probability, whether the call is made directly or by the model-level    *)
(* function; a call with four positive arguments returns a probability.    *)
C39_BadArgsRaise ==
    rn_q.called =>
        /\ BadArgs => (rn_r.raised /\ rn_r.p = "none" /\ rn_r.reason # "")
        /\ ~BadArgs => (~rn_r.raised /\ rn_r.p # "none")
        /\ (rn_pc = "model" /\ BadArgs) => (model_r.raised /\ model_r.rn_prob = "none")

\* a direct call whose only bad argument is the time to expiry
C39_Witness ==
    /\ rn_pc = "prob" /\ rn_q.called /\ rn_r.raised
    /\ rn_q.forward > 0 /\ rn_q.strike > 0 /\ rn_q.sigma > 0 /\ rn_q.t_years <= 0
====
